---- MODULE Spec2Model ----
(***************************************************************************)
(* A model of the backtest engine (src/src/backtest_engine.py) and of the  *)
(* two pure functions it calls (src/src/strategy_v5.py).                   *)
(*                                                                         *)
(* Numbers.  The program computes with floats; the model computes with     *)
(* fixed-point integers:                                                   *)
(*   prices, cash, pnl, fees    in ticks        (1 tick  = 0.01)           *)
(*   quantities                 in milli-units  (1 unit  = 1000)           *)
(*   rates (fee, slippage, risk, notional cap)  in basis points (1e-4)     *)
(*   pnl_pct and its thresholds in parts per million (1e-6)                *)
(* A product or quotient that is not a whole number is rounded down, where *)
(* the program rounds to the nearest float.                                *)
(***************************************************************************)
EXTENDS Integers, Sequences, FiniteSets, TLC

\* The longest frame (rows left after dropna) a run is given.
MaxBars == 4

\* The most rows with a missing value in a frame that has no other row.
MaxDropped == 1

---------------------------------------------------------------------------
(* Arithmetic helpers                                                      *)

Abs(x) == IF x < 0 THEN -x ELSE x
Max(a, b) == IF a >= b THEN a ELSE b
Min(a, b) == IF a <= b THEN a ELSE b

\* x * (bp / 10000)
Rate(x, bp) == (x * bp) \div 10000
\* price * qty with qty in milli-units
Notional(price, qty) == (price * qty) \div 1000

\* Python's a / b on floats: raises ZeroDivisionError when b = 0.
TrueDiv(a, b) ==
    IF b = 0 THEN [raised |-> TRUE, value |-> 0]
    ELSE [raised |-> FALSE, value |-> a \div b]

---------------------------------------------------------------------------
(* strategy_v5.py                                                          *)

\* A cap of None is NoCap; a given cap is <<bp>>.
NoCap == << >>

\* calculate_position_size with the notional cap ignored.
calculate_position_size_uncapped(equity, risk_pct, entry_price, stop_price, max_notional_pct) ==
    IF entry_price <= 0 THEN [raised |-> FALSE, value |-> 0]
    ELSE LET stop_distance == Abs(entry_price - stop_price) IN
         IF stop_distance <= 0 THEN [raised |-> FALSE, value |-> 0]
         ELSE LET qty == TrueDiv(Rate(equity, risk_pct) * 1000, stop_distance)
              IN  [qty EXCEPT !.value = Max(@, 0)]

\* calculate_position_size without the guard on the stop distance.
calculate_position_size_unguarded(equity, risk_pct, entry_price, stop_price, max_notional_pct) ==
    IF entry_price <= 0 THEN [raised |-> FALSE, value |-> 0]
    ELSE LET qty == TrueDiv(Rate(equity, risk_pct) * 1000,
                            Abs(entry_price - stop_price))
         IN  IF max_notional_pct = NoCap
             THEN [qty EXCEPT !.value = Max(@, 0)]
             ELSE LET max_qty == TrueDiv(Rate(equity, max_notional_pct[1]) * 1000,
                                         entry_price)
                  IN  [raised |-> qty.raised \/ max_qty.raised,
                       value |-> Max(Min(qty.value, max_qty.value), 0)]

calculate_position_size(equity, risk_pct, entry_price, stop_price, max_notional_pct) ==
    IF entry_price <= 0 THEN [raised |-> FALSE, value |-> 0]
    ELSE LET stop_distance == Abs(entry_price - stop_price) IN
         IF stop_distance <= 0 THEN [raised |-> FALSE, value |-> 0]
         ELSE LET risk_amt == Rate(equity, risk_pct)
                  qty == TrueDiv(risk_amt * 1000, stop_distance)
              IN  IF max_notional_pct = NoCap
                  THEN [qty EXCEPT !.value = Max(@, 0)]
                  ELSE LET max_qty == TrueDiv(Rate(equity, max_notional_pct[1]) * 1000,
                                              entry_price)
                       IN  [raised |-> qty.raised \/ max_qty.raised,
                            value |-> Max(Min(qty.value, max_qty.value), 0)]

\* tp2_invalid_should_tighten with the hold gate checked before the profit gate.
tp2_invalid_should_tighten_hold_first(pnl_pct, hold_bars, min_pnl_pct, min_hold_bars) ==
    IF pnl_pct <= 0 THEN <<FALSE, "loss">>
    ELSE IF hold_bars < min_hold_bars THEN <<FALSE, "hold_gate">>
    ELSE IF pnl_pct < min_pnl_pct THEN <<FALSE, "profit_gate">>
    ELSE <<TRUE, "allow">>

tp2_invalid_should_tighten(pnl_pct, hold_bars, min_pnl_pct, min_hold_bars) ==
    IF pnl_pct <= 0 THEN <<FALSE, "loss">>
    ELSE IF pnl_pct < min_pnl_pct THEN <<FALSE, "profit_gate">>
    ELSE IF hold_bars < min_hold_bars THEN <<FALSE, "hold_gate">>
    ELSE <<TRUE, "allow">>

\* build_signals: the candidate and touch columns of one row.
build_signals(r) ==
    LET long_candidate == /\ r.rsi > 50
                          /\ r.macd_hist > 0
                          /\ r.close > r.ema_fast
                          /\ r.ema_fast > r.ema_slow
                          /\ r.close > r.boll_mid
        short_candidate == /\ r.rsi < 50
                           /\ r.macd_hist < 0
                           /\ r.close < r.ema_fast
                           /\ r.ema_fast < r.ema_slow
                           /\ r.close < r.boll_mid
    IN  [long_signal |-> long_candidate,
         short_signal |-> short_candidate,
         touch_long |-> r.low <= r.boll_lower,
         touch_short |-> r.high >= r.boll_upper]

---------------------------------------------------------------------------
(* backtest_engine.py: run_backtest                                        *)

\* Optional values: None is << >>, a value v is <<v>>.
None == << >>
Some(v) == <<v>>

\* config: the numbers of tests/test_beargate.py's cfg in the model's units,
\* with a lookback, a hold gate and a notional cap that a short frame reaches.
BaseConfig ==
    [initial_capital |-> 100000,
     fee_rate |-> 4,
     slippage_rate |-> 1,
     trade_mode |-> "both",
     risk_per_trade_long |-> 100,
     risk_per_trade_short |-> 100,
     max_notional_pct_short |-> 7500,
     ema_slope_lookback |-> 1,
     bear_adx_threshold |-> 25,
     atr_trail_mult |-> 2,
     atr_init_mult |-> 2,
     tp2_invalid_min_pnl_pct_long |-> 2000,
     tp2_invalid_min_pnl_pct_short |-> 8000,
     tp2_invalid_min_hold_bars |-> 1,
     tp2_invalid_action |-> "tighten_stop",
     tighten_to |-> "mid"]

\* The configurations a run is given: the base one, and the base one changed
\* in one respect.
Configs ==
    { BaseConfig,
      [BaseConfig EXCEPT !.trade_mode = "long_only"],
      [BaseConfig EXCEPT !.trade_mode = "short_only"],
      [BaseConfig EXCEPT !.tighten_to = "atr_trail"],
      [BaseConfig EXCEPT !.tp2_invalid_min_pnl_pct_long = 50000,
                         !.tp2_invalid_min_hold_bars = 2],
      [BaseConfig EXCEPT !.initial_capital = 0],
      [BaseConfig EXCEPT !.tp2_invalid_action = "none"] }

CounterNames ==
    {"d_allow_long_bars", "d_allow_short_bars", "d_range_blocked_bars",
     "h_touch_long_events", "h_touch_short_events",
     "entries_long", "entries_short", "entries_total",
     "candidates_long", "candidates_short",
     "tp2_invalid_blocked_by_loss", "tp2_invalid_blocked_by_hold",
     "tp2_invalid_blocked_by_profit_gate", "tp2_invalid_tighten_count",
     "tp2_invalid_triggered_exit_count",
     "beargate_pass", "beargate_fail", "beargate_short_blocked"}

Inc(c, k) == [c EXCEPT ![k] = @ + 1]

\* Position(side, entry_price, qty, stop_price, entry_time): the dataclass
\* with its defaults.
Position(side, entry_price, qty, stop_price, entry_time) ==
    [side |-> side, entry_price |-> entry_price, qty |-> qty,
     stop_price |-> stop_price, entry_time |-> entry_time,
     hold_bars |-> 0, tp2_tightened |-> FALSE, pending_stop |-> None]

\* A row at index k (1-based; open_time is the 0-based index).  kind fixes
\* the indicator columns around the close: "bull" lets build_signals raise
\* long_candidate, "bear" short_candidate, "flat" neither.  The Bollinger band
\* is mid +- 200 and the bar spans close +- atr.
RowOf(k, kind, close, atr, adx, adx_f, ema_fast_f) ==
    LET mid == CASE kind = "bull" -> close - 150
                 [] kind = "bear" -> close + 150
                 [] OTHER -> close
    IN [open_time |-> k - 1,
        high |-> close + atr, low |-> close - atr, close |-> close,
        rsi |-> CASE kind = "bull" -> 60 [] kind = "bear" -> 40 [] OTHER -> 50,
        macd_hist |-> CASE kind = "bull" -> 1 [] kind = "bear" -> -1 [] OTHER -> 0,
        ema_fast |-> CASE kind = "bull" -> close - 50
                       [] kind = "bear" -> close + 50 [] OTHER -> close,
        ema_slow |-> CASE kind = "bull" -> close - 100
                       [] kind = "bear" -> close + 100 [] OTHER -> close,
        boll_mid |-> mid, boll_upper |-> mid + 200, boll_lower |-> mid - 200,
        atr |-> atr, adx |-> adx, adx_f |-> adx_f, ema_fast_f |-> ema_fast_f]

\* The rows a frame is built from, as
\* <<kind, close, atr, adx, adx_f, ema_fast_f>>: trending and range-bound
\* (adx < 15) candidates of either side, a long candidate on a dead bar
\* (atr = 0), and for the short side the ways the filter columns can fail the
\* gate (filter ADX under the threshold, slope not negative).
Shapes ==
    { <<"bull", 10000, 100, 20, 30, 1000>>,
      <<"bull", 10300, 100, 20, 30, 1000>>,
      <<"bull", 10000, 100, 10, 30, 1000>>,
      <<"bull", 10300, 0, 20, 30, 1000>>,
      <<"bear", 10000, 100, 20, 30, 990>>,
      <<"bear", 10300, 100, 20, 30, 990>>,
      <<"bear", 10300, 100, 10, 30, 990>>,
      <<"bear", 10300, 100, 20, 10, 990>>,
      <<"flat", 10000, 100, 20, 30, 1000>> }

\* Without the filter columns a row has no adx_f and no ema_fast_f (0 here).
Rows(k, has_filter) ==
    { RowOf(k, g[1], g[2], g[3], g[4],
            IF has_filter THEN g[5] ELSE 0, IF has_filter THEN g[6] ELSE 0) :
        g \in Shapes }

\* range_filter = df["adx"] < 15
range_filter(frame, k) == frame[k].adx < 15

\* bear_pass without the threshold on the filter ADX.
bear_pass_any_adx(frame, k, has_filter, cfg) ==
    /\ has_filter
    /\ k - cfg.ema_slope_lookback >= 1
    /\ frame[k].ema_fast_f - frame[k - cfg.ema_slope_lookback].ema_fast_f < 0

\* bear_pass: False everywhere without the filter columns; a slope over a
\* shift that reaches before the frame is NaN, and NaN < 0 is False.
bear_pass(frame, k, has_filter, cfg) ==
    /\ has_filter
    /\ k - cfg.ema_slope_lookback >= 1
    /\ frame[k].adx_f >= cfg.bear_adx_threshold
    /\ frame[k].ema_fast_f - frame[k - cfg.ema_slope_lookback].ema_fast_f < 0

\* The loop's local state.
LoopState(cash_, position_, trades_, equity_curve_, counters_) ==
    [cash |-> cash_, position |-> position_, trades |-> trades_,
     equity_curve |-> equity_curve_, counters |-> counters_, raised |-> FALSE]

\* The diagnostics with a range-bound bar tallied as allowing longs too.
Diagnostics_range_allows_long(s, frame, k, has_filter, cfg) ==
    LET sig == build_signals(frame[k])
        c1 == IF range_filter(frame, k)
              THEN Inc(Inc(s.counters, "d_range_blocked_bars"), "d_allow_long_bars")
              ELSE IF bear_pass(frame, k, has_filter, cfg)
                   THEN Inc(Inc(s.counters, "d_allow_long_bars"), "d_allow_short_bars")
                   ELSE Inc(s.counters, "d_allow_long_bars")
        c2 == IF sig.touch_long THEN Inc(c1, "h_touch_long_events") ELSE c1
        c3 == IF sig.touch_short THEN Inc(c2, "h_touch_short_events") ELSE c2
        c4 == IF bear_pass(frame, k, has_filter, cfg)
              THEN Inc(c3, "beargate_pass")
              ELSE Inc(c3, "beargate_fail")
    IN [s EXCEPT !.counters = c4]

\* Lines 80-95: the bar's diagnostics counters.
Diagnostics(s, frame, k, has_filter, cfg) ==
    LET sig == build_signals(frame[k])
        c1 == IF range_filter(frame, k)
              THEN Inc(s.counters, "d_range_blocked_bars")
              ELSE IF bear_pass(frame, k, has_filter, cfg)
                   THEN Inc(Inc(s.counters, "d_allow_long_bars"), "d_allow_short_bars")
                   ELSE Inc(s.counters, "d_allow_long_bars")
        c2 == IF sig.touch_long THEN Inc(c1, "h_touch_long_events") ELSE c1
        c3 == IF sig.touch_short THEN Inc(c2, "h_touch_short_events") ELSE c2
        c4 == IF bear_pass(frame, k, has_filter, cfg)
              THEN Inc(c3, "beargate_pass")
              ELSE Inc(c3, "beargate_fail")
    IN [s EXCEPT !.counters = c4]

\* The row the trailing stop is computed from taken to be the bar's own.
PrevRow_this_bar(frame, k) == Some(frame[k])

\* prev_row = df.iloc[i - 1] if i > 0 else None
PrevRow(frame, k) == IF k > 1 THEN Some(frame[k - 1]) ELSE None

\* The trailing stop taken over whether or not it is tighter.
TrailStop_unconditional(p, prev, cfg) ==
    IF p.side = "LONG"
    THEN prev.close - prev.atr * cfg.atr_trail_mult
    ELSE prev.close + prev.atr * cfg.atr_trail_mult

\* Lines 107-113: the trailing stop moves only to a tighter value.
TrailStop(p, prev, cfg) ==
    IF p.side = "LONG"
    THEN LET trail == prev.close - prev.atr * cfg.atr_trail_mult
         IN IF trail > p.stop_price THEN trail ELSE p.stop_price
    ELSE LET trail == prev.close + prev.atr * cfg.atr_trail_mult
         IN IF trail < p.stop_price THEN trail ELSE p.stop_price

\* The bookkeeping without the count of bars held.
Bookkeeping_hold_uncounted(s, frame, k, cfg) ==
    IF s.position = None THEN s
    ELSE LET p1 == s.position[1]
             p2 == IF p1.pending_stop # None
                   THEN [p1 EXCEPT !.stop_price = p1.pending_stop[1],
                                   !.pending_stop = None]
                   ELSE p1
             prev_row == PrevRow(frame, k)
             p3 == IF prev_row # None
                   THEN [p2 EXCEPT !.stop_price = TrailStop(p2, prev_row[1], cfg)]
                   ELSE p2
         IN [s EXCEPT !.position = Some(p3)]

\* Lines 99-113: hold_bars, the pending stop's commit, the trailing stop.
Bookkeeping(s, frame, k, cfg) ==
    IF s.position = None THEN s
    ELSE LET p0 == s.position[1]
             p1 == [p0 EXCEPT !.hold_bars = @ + 1]
             p2 == IF p1.pending_stop # None
                   THEN [p1 EXCEPT !.stop_price = p1.pending_stop[1],
                                   !.pending_stop = None]
                   ELSE p1
             prev_row == PrevRow(frame, k)
             p3 == IF prev_row # None
                   THEN [p2 EXCEPT !.stop_price = TrailStop(p2, prev_row[1], cfg)]
                   ELSE p2
         IN [s EXCEPT !.position = Some(p3)]

\* The stop counted as reached only when the bar goes through it.
StopHit_strict(p, row) ==
    \/ p.side = "LONG" /\ row.low < p.stop_price
    \/ p.side = "SHORT" /\ row.high > p.stop_price

\* Lines 117-122: whether the bar reaches the stop.
StopHit(p, row) ==
    \/ p.side = "LONG" /\ row.low <= p.stop_price
    \/ p.side = "SHORT" /\ row.high >= p.stop_price

\* The stop exit with every exit tallied as a tightened one.
StopExit_counts_every_exit(s, row, cfg) ==
    IF s.position = None THEN s
    ELSE LET p == s.position[1] IN
         IF ~StopHit(p, row) THEN s
         ELSE LET exit_price ==
                      IF p.side = "LONG"
                      THEN (p.stop_price * (10000 - cfg.slippage_rate)) \div 10000
                      ELSE (p.stop_price * (10000 + cfg.slippage_rate)) \div 10000
                  pnl == IF p.side = "LONG"
                         THEN Notional(exit_price - p.entry_price, p.qty)
                         ELSE Notional(p.entry_price - exit_price, p.qty)
                  fee == Rate(Notional(exit_price, p.qty), cfg.fee_rate)
                  realized == pnl - fee
                  trade == [entry_time |-> p.entry_time,
                            exit_time |-> row.open_time,
                            side |-> p.side,
                            entry_price |-> p.entry_price,
                            exit_price |-> exit_price,
                            qty |-> p.qty,
                            pnl |-> realized,
                            reason |-> IF realized > 0 THEN "TrailStop" ELSE "Stop",
                            stop_type |-> IF realized > 0 THEN "profit_stop"
                                          ELSE "loss_stop",
                            hold_bars |-> p.hold_bars]
              IN [s EXCEPT !.cash = @ + pnl - fee,
                           !.trades = Append(@, trade),
                           !.counters = Inc(@, "tp2_invalid_triggered_exit_count"),
                           !.position = None]

\* The stop exit with the trade's exit_time taken one bar late.
StopExit_exit_time_late(s, row, cfg) ==
    IF s.position = None THEN s
    ELSE LET p == s.position[1] IN
         IF ~StopHit(p, row) THEN s
         ELSE LET exit_price ==
                      IF p.side = "LONG"
                      THEN (p.stop_price * (10000 - cfg.slippage_rate)) \div 10000
                      ELSE (p.stop_price * (10000 + cfg.slippage_rate)) \div 10000
                  pnl == IF p.side = "LONG"
                         THEN Notional(exit_price - p.entry_price, p.qty)
                         ELSE Notional(p.entry_price - exit_price, p.qty)
                  fee == Rate(Notional(exit_price, p.qty), cfg.fee_rate)
                  realized == pnl - fee
                  trade == [entry_time |-> p.entry_time,
                            exit_time |-> row.open_time + 1,
                            side |-> p.side,
                            entry_price |-> p.entry_price,
                            exit_price |-> exit_price,
                            qty |-> p.qty,
                            pnl |-> realized,
                            reason |-> IF realized > 0 THEN "TrailStop" ELSE "Stop",
                            stop_type |-> IF realized > 0 THEN "profit_stop"
                                          ELSE "loss_stop",
                            hold_bars |-> p.hold_bars]
              IN [s EXCEPT !.cash = @ + pnl - fee,
                           !.trades = Append(@, trade),
                           !.counters = IF p.tp2_tightened
                                        THEN Inc(@, "tp2_invalid_triggered_exit_count")
                                        ELSE @,
                           !.position = None]

\* The stop exit with the trade's pnl recorded before the exit fee.
StopExit_gross_pnl(s, row, cfg) ==
    IF s.position = None THEN s
    ELSE LET p == s.position[1] IN
         IF ~StopHit(p, row) THEN s
         ELSE LET exit_price ==
                      IF p.side = "LONG"
                      THEN (p.stop_price * (10000 - cfg.slippage_rate)) \div 10000
                      ELSE (p.stop_price * (10000 + cfg.slippage_rate)) \div 10000
                  pnl == IF p.side = "LONG"
                         THEN Notional(exit_price - p.entry_price, p.qty)
                         ELSE Notional(p.entry_price - exit_price, p.qty)
                  fee == Rate(Notional(exit_price, p.qty), cfg.fee_rate)
                  realized == pnl - fee
                  trade == [entry_time |-> p.entry_time,
                            exit_time |-> row.open_time,
                            side |-> p.side,
                            entry_price |-> p.entry_price,
                            exit_price |-> exit_price,
                            qty |-> p.qty,
                            pnl |-> pnl,
                            reason |-> IF realized > 0 THEN "TrailStop" ELSE "Stop",
                            stop_type |-> IF realized > 0 THEN "profit_stop"
                                          ELSE "loss_stop",
                            hold_bars |-> p.hold_bars]
              IN [s EXCEPT !.cash = @ + pnl - fee,
                           !.trades = Append(@, trade),
                           !.counters = IF p.tp2_tightened
                                        THEN Inc(@, "tp2_invalid_triggered_exit_count")
                                        ELSE @,
                           !.position = None]

\* The stop exit with the reason and stop_type taken from the stop that
\* triggered it (a tightened one or not) instead of from the realized pnl.
StopExit_by_stop_kind(s, row, cfg) ==
    IF s.position = None THEN s
    ELSE LET p == s.position[1] IN
         IF ~StopHit(p, row) THEN s
         ELSE LET exit_price ==
                      IF p.side = "LONG"
                      THEN (p.stop_price * (10000 - cfg.slippage_rate)) \div 10000
                      ELSE (p.stop_price * (10000 + cfg.slippage_rate)) \div 10000
                  pnl == IF p.side = "LONG"
                         THEN Notional(exit_price - p.entry_price, p.qty)
                         ELSE Notional(p.entry_price - exit_price, p.qty)
                  fee == Rate(Notional(exit_price, p.qty), cfg.fee_rate)
                  trade == [entry_time |-> p.entry_time,
                            exit_time |-> row.open_time,
                            side |-> p.side,
                            entry_price |-> p.entry_price,
                            exit_price |-> exit_price,
                            qty |-> p.qty,
                            pnl |-> pnl - fee,
                            reason |-> IF p.tp2_tightened THEN "TrailStop" ELSE "Stop",
                            stop_type |-> IF p.tp2_tightened THEN "profit_stop"
                                          ELSE "loss_stop",
                            hold_bars |-> p.hold_bars]
              IN [s EXCEPT !.cash = @ + pnl - fee,
                           !.trades = Append(@, trade),
                           !.counters = IF p.tp2_tightened
                                        THEN Inc(@, "tp2_invalid_triggered_exit_count")
                                        ELSE @,
                           !.position = None]

\* Lines 115-151: the stop exit.
StopExit(s, row, cfg) ==
    IF s.position = None THEN s
    ELSE LET p == s.position[1] IN
         IF ~StopHit(p, row) THEN s
         ELSE LET exit_price ==
                      IF p.side = "LONG"
                      THEN (p.stop_price * (10000 - cfg.slippage_rate)) \div 10000
                      ELSE (p.stop_price * (10000 + cfg.slippage_rate)) \div 10000
                  pnl == IF p.side = "LONG"
                         THEN Notional(exit_price - p.entry_price, p.qty)
                         ELSE Notional(p.entry_price - exit_price, p.qty)
                  fee == Rate(Notional(exit_price, p.qty), cfg.fee_rate)
                  realized == pnl - fee
                  trade == [entry_time |-> p.entry_time,
                            exit_time |-> row.open_time,
                            side |-> p.side,
                            entry_price |-> p.entry_price,
                            exit_price |-> exit_price,
                            qty |-> p.qty,
                            pnl |-> realized,
                            reason |-> IF realized > 0 THEN "TrailStop" ELSE "Stop",
                            stop_type |-> IF realized > 0 THEN "profit_stop"
                                          ELSE "loss_stop",
                            hold_bars |-> p.hold_bars]
              IN [s EXCEPT !.cash = @ + pnl - fee,
                           !.trades = Append(@, trade),
                           !.counters = IF p.tp2_tightened
                                        THEN Inc(@, "tp2_invalid_triggered_exit_count")
                                        ELSE @,
                           !.position = None]

\* The structural stop taken over the whole frame up to the bar.
Window_whole_frame(k) == 1 .. k

\* df.loc[max(0, i - 4) : i, col]: the last five rows, the bar's included.
Window(k) == Max(1, k - 4) .. k
MinOf(S) == CHOOSE x \in S : \A y \in S : x <= y
MaxOf(S) == CHOOSE x \in S : \A y \in S : x >= y

\* Line 40
allow_long(cfg) == cfg.trade_mode \in {"both", "long_only"}

\* Short trading enabled whatever trade_mode says.
allow_short_always(cfg) == cfg.trade_mode \in {"both", "short_only", "long_only"}

\* Line 41
allow_short(cfg) == cfg.trade_mode \in {"both", "short_only"}

\* A long signal read off the close and the mid band alone.
long_signal_above_mid(row) == row.close >= row.boll_mid

\* Line 154: bool(row["long_signal"])
long_signal(row) == build_signals(row).long_signal

\* Line 182: bool(row["short_signal"])
short_signal(row) == build_signals(row).short_signal

\* The long entry held to the secondary regime gate as the short entry is.
LongAllowed_gated(frame, k, has_filter, cfg) ==
    allow_long(cfg) /\ ~range_filter(frame, k) /\ bear_pass(frame, k, has_filter, cfg)

\* Line 156: allow_long and not range_filter.iloc[i]
LongAllowed(frame, k, has_filter, cfg) ==
    allow_long(cfg) /\ ~range_filter(frame, k)

\* The short entry let through on a range-bound bar.
ShortAllowed_in_range(frame, k, has_filter, cfg) == allow_short(cfg)

\* Line 184: allow_short and not range_filter.iloc[i]
ShortAllowed(frame, k, has_filter, cfg) ==
    allow_short(cfg) /\ ~range_filter(frame, k)

\* The long entry opened on any quantity that is not negative.
LongEntry_zero_size_opens(s, frame, k, has_filter, cfg) ==
    LET row == frame[k] IN
    IF ~long_signal(row) THEN s
    ELSE LET s1 == [s EXCEPT !.counters = Inc(@, "candidates_long")] IN
         IF ~LongAllowed(frame, k, has_filter, cfg) THEN s1
         ELSE LET entry_price == (row.close * (10000 + cfg.slippage_rate)) \div 10000
                  recent_low == MinOf({frame[j].low : j \in Window(k)})
                  stop_price == Max(entry_price - row.atr * cfg.atr_init_mult,
                                    recent_low)
                  qty == calculate_position_size(s1.cash, cfg.risk_per_trade_long,
                                                 entry_price, stop_price, NoCap)
              IN IF qty.raised THEN [s1 EXCEPT !.raised = TRUE]
                 ELSE IF ~(qty.value >= 0) THEN s1
                 ELSE [s1 EXCEPT
                         !.cash = @ - Rate(Notional(entry_price, qty.value), cfg.fee_rate),
                         !.position = Some(Position("LONG", entry_price, qty.value,
                                                    stop_price, row.open_time)),
                         !.counters = Inc(Inc(@, "entries_long"), "entries_total")]

\* Lines 154-180: the long entry.
LongEntry(s, frame, k, has_filter, cfg) ==
    LET row == frame[k] IN
    IF ~long_signal(row) THEN s
    ELSE LET s1 == [s EXCEPT !.counters = Inc(@, "candidates_long")] IN
         IF ~LongAllowed(frame, k, has_filter, cfg) THEN s1
         ELSE LET entry_price == (row.close * (10000 + cfg.slippage_rate)) \div 10000
                  recent_low == MinOf({frame[j].low : j \in Window(k)})
                  atr_stop == entry_price - row.atr * cfg.atr_init_mult
                  structure_stop == recent_low
                  stop_price == Max(atr_stop, structure_stop)
                  qty == calculate_position_size(s1.cash, cfg.risk_per_trade_long,
                                                 entry_price, stop_price, NoCap)
              IN IF qty.raised THEN [s1 EXCEPT !.raised = TRUE]
                 ELSE IF ~(qty.value > 0) THEN s1
                 ELSE [s1 EXCEPT
                         !.cash = @ - Rate(Notional(entry_price, qty.value), cfg.fee_rate),
                         !.position = Some(Position("LONG", entry_price, qty.value,
                                                    stop_price, row.open_time)),
                         !.counters = Inc(Inc(@, "entries_long"), "entries_total")]

\* The short entry attempted on a candidate of either side, whether or not
\* the long entry has just opened a position.
ShortEntry_after_long(s, frame, k, has_filter, cfg) ==
    LET row == frame[k] IN
    IF ~(long_signal(row) \/ short_signal(row)) THEN s
    ELSE LET s1 == [s EXCEPT !.counters = Inc(@, "candidates_short")] IN
         IF ~ShortAllowed(frame, k, has_filter, cfg) THEN s1
         ELSE IF ~bear_pass(frame, k, has_filter, cfg)
              THEN [s1 EXCEPT !.counters = Inc(@, "beargate_short_blocked")]
         ELSE LET entry_price == (row.close * (10000 - cfg.slippage_rate)) \div 10000
                  recent_high == MaxOf({frame[j].high : j \in Window(k)})
                  stop_price == Min(entry_price + row.atr * cfg.atr_init_mult,
                                    recent_high)
                  qty == calculate_position_size(s1.cash, cfg.risk_per_trade_short,
                                                 entry_price, stop_price,
                                                 Some(cfg.max_notional_pct_short))
              IN IF qty.raised THEN [s1 EXCEPT !.raised = TRUE]
                 ELSE IF ~(qty.value > 0) THEN s1
                 ELSE [s1 EXCEPT
                         !.cash = @ - Rate(Notional(entry_price, qty.value), cfg.fee_rate),
                         !.position = Some(Position("SHORT", entry_price, qty.value,
                                                    stop_price, row.open_time)),
                         !.counters = Inc(Inc(@, "entries_short"), "entries_total")]

\* Lines 182-211: the short entry.
ShortEntry(s, frame, k, has_filter, cfg) ==
    LET row == frame[k] IN
    IF ~(s.position = None /\ short_signal(row)) THEN s
    ELSE LET s1 == [s EXCEPT !.counters = Inc(@, "candidates_short")] IN
         IF ~ShortAllowed(frame, k, has_filter, cfg) THEN s1
         ELSE IF ~bear_pass(frame, k, has_filter, cfg)
              THEN [s1 EXCEPT !.counters = Inc(@, "beargate_short_blocked")]
         ELSE LET entry_price == (row.close * (10000 - cfg.slippage_rate)) \div 10000
                  recent_high == MaxOf({frame[j].high : j \in Window(k)})
                  atr_stop == entry_price + row.atr * cfg.atr_init_mult
                  structure_stop == recent_high
                  stop_price == Min(atr_stop, structure_stop)
                  qty == calculate_position_size(s1.cash, cfg.risk_per_trade_short,
                                                 entry_price, stop_price,
                                                 Some(cfg.max_notional_pct_short))
              IN IF qty.raised THEN [s1 EXCEPT !.raised = TRUE]
                 ELSE IF ~(qty.value > 0) THEN s1
                 ELSE [s1 EXCEPT
                         !.cash = @ - Rate(Notional(entry_price, qty.value), cfg.fee_rate),
                         !.position = Some(Position("SHORT", entry_price, qty.value,
                                                    stop_price, row.open_time)),
                         !.counters = Inc(Inc(@, "entries_short"), "entries_total")]

\* The entry check run whether or not a position is open.
EntryCheck_position_unchecked(s, frame, k, has_filter, cfg) ==
    LET s1 == LongEntry(s, frame, k, has_filter, cfg) IN
    IF s1.raised THEN s1 ELSE ShortEntry(s1, frame, k, has_filter, cfg)

\* Lines 153-211: the entry check runs only when no position is open.
EntryCheck(s, frame, k, has_filter, cfg) ==
    IF s.position # None THEN s
    ELSE LET s1 == LongEntry(s, frame, k, has_filter, cfg) IN
         IF s1.raised THEN s1 ELSE ShortEntry(s1, frame, k, has_filter, cfg)

\* Lines 216-218: the unrealized pnl as a share of the entry price.
PnlPct(p, row) ==
    IF p.side = "LONG"
    THEN ((row.close - p.entry_price) * 1000000) \div p.entry_price
    ELSE ((p.entry_price - row.close) * 1000000) \div p.entry_price

\* The trigger taken on a close that is on the position's side of the mid
\* band.
Trigger_with_position(p, row, prev_row) ==
    IF p.side = "LONG"
    THEN row.close > row.boll_mid /\ prev_row # None
         /\ prev_row[1].close >= prev_row[1].boll_mid
    ELSE row.close < row.boll_mid /\ prev_row # None
         /\ prev_row[1].close <= prev_row[1].boll_mid

\* Lines 220-224: the close crosses the mid band against the position.
Trigger(p, row, prev_row) ==
    IF p.side = "LONG"
    THEN row.close < row.boll_mid /\ prev_row # None
         /\ prev_row[1].close >= prev_row[1].boll_mid
    ELSE row.close > row.boll_mid /\ prev_row # None
         /\ prev_row[1].close <= prev_row[1].boll_mid

\* The staged stop taken as the looser of the candidate and the current stop.
TightenedStop_looser(p, row, prev_row, cfg) ==
    LET candidate ==
            IF cfg.tighten_to = "atr_trail" /\ prev_row # None
            THEN IF p.side = "LONG"
                 THEN prev_row[1].close - prev_row[1].atr * cfg.atr_trail_mult
                 ELSE prev_row[1].close + prev_row[1].atr * cfg.atr_trail_mult
            ELSE row.boll_mid
    IN IF p.side = "LONG" THEN Min(p.stop_price, candidate)
       ELSE Max(p.stop_price, candidate)

\* Lines 241-254: the stop an allowed tighten stages.
TightenedStop(p, row, prev_row, cfg) ==
    LET candidate ==
            IF cfg.tighten_to = "atr_trail" /\ prev_row # None
            THEN IF p.side = "LONG"
                 THEN prev_row[1].close - prev_row[1].atr * cfg.atr_trail_mult
                 ELSE prev_row[1].close + prev_row[1].atr * cfg.atr_trail_mult
            ELSE row.boll_mid
    IN IF p.side = "LONG" THEN Max(p.stop_price, candidate)
       ELSE Min(p.stop_price, candidate)

\* The tighten check with the tightened stop made active on the spot.
TightenCheck_immediate(s, frame, k, cfg) ==
    IF s.position = None \/ ~(k - 1 > 0) THEN s
    ELSE LET p == s.position[1]
             row == frame[k]
             prev_row == PrevRow(frame, k)
         IN IF ~Trigger(p, row, prev_row) THEN s
            ELSE LET d == tp2_invalid_should_tighten(
                              PnlPct(p, row), p.hold_bars,
                              IF p.side = "LONG" THEN cfg.tp2_invalid_min_pnl_pct_long
                              ELSE cfg.tp2_invalid_min_pnl_pct_short,
                              cfg.tp2_invalid_min_hold_bars)
                 IN IF ~d[1] \/ cfg.tp2_invalid_action # "tighten_stop" THEN s
                    ELSE [s EXCEPT
                            !.position = Some([p EXCEPT
                                !.stop_price = TightenedStop(p, row, prev_row, cfg),
                                !.tp2_tightened = TRUE]),
                            !.counters = Inc(@, "tp2_invalid_tighten_count")]

\* The tighten check with the LONG threshold applied to either side.
TightenCheck_one_threshold(s, frame, k, cfg) ==
    IF s.position = None \/ ~(k - 1 > 0) THEN s
    ELSE LET p == s.position[1]
             row == frame[k]
             prev_row == PrevRow(frame, k)
         IN IF ~Trigger(p, row, prev_row) THEN s
            ELSE LET d == tp2_invalid_should_tighten(
                              PnlPct(p, row), p.hold_bars,
                              cfg.tp2_invalid_min_pnl_pct_long,
                              cfg.tp2_invalid_min_hold_bars)
                     allow == d[1]
                     reason == d[2]
                 IN IF ~allow
                    THEN [s EXCEPT !.counters =
                            IF reason = "loss"
                            THEN Inc(@, "tp2_invalid_blocked_by_loss")
                            ELSE IF reason = "hold_gate"
                                 THEN Inc(@, "tp2_invalid_blocked_by_hold")
                                 ELSE Inc(@, "tp2_invalid_blocked_by_profit_gate")]
                    ELSE IF cfg.tp2_invalid_action # "tighten_stop" THEN s
                    ELSE [s EXCEPT
                            !.position = Some([p EXCEPT
                                !.pending_stop = Some(TightenedStop(p, row, prev_row, cfg)),
                                !.tp2_tightened = TRUE]),
                            !.counters = Inc(@, "tp2_invalid_tighten_count")]

\* Lines 213-256: the tighten check.
TightenCheck(s, frame, k, cfg) ==
    IF s.position = None \/ ~(k - 1 > 0) THEN s
    ELSE LET p == s.position[1]
             row == frame[k]
             prev_row == PrevRow(frame, k)
         IN IF ~Trigger(p, row, prev_row) THEN s
            ELSE LET d == tp2_invalid_should_tighten(
                              PnlPct(p, row), p.hold_bars,
                              IF p.side = "LONG" THEN cfg.tp2_invalid_min_pnl_pct_long
                              ELSE cfg.tp2_invalid_min_pnl_pct_short,
                              cfg.tp2_invalid_min_hold_bars)
                     allow == d[1]
                     reason == d[2]
                 IN IF ~allow
                    THEN [s EXCEPT !.counters =
                            IF reason = "loss"
                            THEN Inc(@, "tp2_invalid_blocked_by_loss")
                            ELSE IF reason = "hold_gate"
                                 THEN Inc(@, "tp2_invalid_blocked_by_hold")
                                 ELSE Inc(@, "tp2_invalid_blocked_by_profit_gate")]
                    ELSE IF cfg.tp2_invalid_action # "tighten_stop" THEN s
                    ELSE [s EXCEPT
                            !.position = Some([p EXCEPT
                                !.pending_stop = Some(TightenedStop(p, row, prev_row, cfg)),
                                !.tp2_tightened = TRUE]),
                            !.counters = Inc(@, "tp2_invalid_tighten_count")]

\* An equity point appended only while a position is open.
EquityMark_open_only(s, row) ==
    IF s.position = None THEN s
    ELSE LET p == s.position[1]
             equity == IF p.side = "LONG"
                       THEN s.cash + Notional(row.close - p.entry_price, p.qty)
                       ELSE s.cash + Notional(p.entry_price - row.close, p.qty)
         IN [s EXCEPT !.equity_curve =
                Append(@, [open_time |-> row.open_time, equity |-> equity])]

\* Lines 258-264: the bar's equity point.
EquityMark(s, row) ==
    LET equity == IF s.position = None THEN s.cash
                  ELSE LET p == s.position[1] IN
                       IF p.side = "LONG"
                       THEN s.cash + Notional(row.close - p.entry_price, p.qty)
                       ELSE s.cash + Notional(p.entry_price - row.close, p.qty)
    IN [s EXCEPT !.equity_curve =
            Append(@, [open_time |-> row.open_time, equity |-> equity])]

---------------------------------------------------------------------------
(* The state of one call of run_backtest, of a second call that runs beside *)
(* it on a frame with other filter columns, and of one call of a pure       *)
(* function of strategy_v5.py.                                              *)

VARIABLES
    pc,            \* "start", "loop", "returned", "raised"; "call" for a pure function
    config,        \* the config argument
    filter_cols,   \* whether df has the columns adx_f and ema_fast_f
    total,         \* len(df) after build_signals and dropna
    dropped,       \* the rows dropna removed, counted when they were all the
                   \* frame had (from a frame that stays non-empty they leave
                   \* no trace in the call)
    df,            \* the rows of df the loop has reached, in order
    absent,        \* the key the config mapping lacks, NoKey when it lacks none
    cash, position, trades, equity_curve, counters,
    result,        \* None until the call returns; then whether it carries "error"
    progress,      \* the calls progress_cb has received
    bar,           \* the position at the steps of the latest bar
    df2,           \* the second call's frame: df with other adx_f and ema_fast_f
    run2,          \* the second call's loop state (None when there is no second call)
    call,          \* the pure-function call: its name, arguments and result
    klines,        \* the rows of the store's klines table
    polls,         \* what stop_flag has returned to run_backtest, call by call
    worker,        \* ui_main.BacktestWorker: where run is and what it has emitted
    trader,        \* live_trader.LiveTrader: its fields, its log and the exchange
    api            \* binance_api.BinanceAPI: the call under way

engine_vars == <<pc, config, filter_cols, total, dropped, absent, df, cash, position, trades,
                 equity_curve, counters, result, progress, bar>>

\* What a single call of run_backtest leaves alone.
\* What lies outside run_backtest and the store.
rest_vars == <<polls, worker, trader, api>>

other_vars == <<df2, run2, call, klines, rest_vars>>

vars == <<engine_vars, other_vars>>

\* No stop_flag is polled, and no worker, trader or API client exists.
Unused == polls = << >> /\ worker = None /\ trader = None /\ api = None

ZeroCounters == [k \in CounterNames |-> 0]

\* The config mapping has every key.
NoKey == "none"

\* No pure-function call is under way.
NoCall == [fn |-> "none", args |-> << >>, result |-> None]

\* Lines 50-74: the loop's locals before the first bar.
Locals(cfg) ==
    /\ cash = cfg.initial_capital
    /\ position = None
    /\ trades = << >>
    /\ equity_curve = << >>
    /\ counters = ZeroCounters

Init ==
    /\ pc = "start"
    /\ \/ config \in Configs /\ filter_cols = TRUE
       \/ config = BaseConfig /\ filter_cols = FALSE
    /\ total \in 0 .. MaxBars
    /\ dropped \in IF total = 0 THEN 0 .. MaxDropped ELSE {0}
    /\ absent = NoKey
    /\ df = << >>
    /\ Locals(config)
    /\ result = None
    /\ progress = << >>
    /\ bar = None
    /\ klines = {}
    /\ Unused
    /\ df2 = << >>
    /\ run2 = None
    /\ call = NoCall

\* An empty frame returned as a run of no bars, without the error marker.
ReturnEmpty_unmarked ==
    /\ pc = "start"
    /\ total = 0
    /\ pc' = "returned"
    /\ result' = Some([error |-> FALSE])
    /\ trades' = << >>
    /\ equity_curve' = << >>
    /\ UNCHANGED <<config, filter_cols, total, dropped, absent, df, cash, position, counters,
                   progress, bar, other_vars>>

\* Lines 29-32: an empty frame returns the error marker.
ReturnEmpty ==
    /\ pc = "start"
    /\ total = 0
    /\ pc' = "returned"
    /\ result' = Some([error |-> TRUE])
    /\ trades' = << >>
    /\ equity_curve' = << >>
    /\ UNCHANGED <<config, filter_cols, total, dropped, absent, df, cash, position, counters,
                   progress, bar, other_vars>>

\* Lines 34-74: the frame is not empty; the loop is entered.
Setup ==
    /\ pc = "start"
    /\ total > 0
    /\ pc' = "loop"
    /\ UNCHANGED <<config, filter_cols, total, dropped, absent, df, cash, position, trades,
                   equity_curve, counters, result, progress, bar, other_vars>>

\* stop_flag polled after the bar's diagnostics counters instead of before.
Cancel_after_diagnostics ==
    /\ pc = "loop"
    /\ Len(df) < total
    /\ pc' = "returned"
    /\ result' = Some([error |-> FALSE])
    /\ \E row \in Rows(Len(df) + 1, filter_cols) :
         counters' = Diagnostics(
                         LoopState(cash, position, trades, equity_curve, counters),
                         Append(df, row), Len(df) + 1, filter_cols, config).counters
    /\ UNCHANGED <<config, filter_cols, total, dropped, absent, df, cash, position, trades,
                   equity_curve, progress, bar, other_vars>>

\* Lines 76-78: stop_flag is given and returns True at the top of a bar.
Cancel ==
    /\ pc = "loop"
    /\ Len(df) < total
    /\ pc' = "returned"
    /\ result' = Some([error |-> FALSE])
    /\ UNCHANGED <<config, filter_cols, total, dropped, absent, df, cash, position, trades,
                   equity_curve, counters, progress, bar, other_vars>>

\* Lines 80-264 on row k of the frame, from the loop's state s: the state
\* after each step.  An exception in the entry check leaves the bar there.
BarSteps(s, frame, k, has_filter, cfg) ==
    LET s1 == Diagnostics(s, frame, k, has_filter, cfg)
        s2 == Bookkeeping(s1, frame, k, cfg)
        s3 == StopExit(s2, frame[k], cfg)
        s4 == EntryCheck(s3, frame, k, has_filter, cfg)
        s5 == TightenCheck(s4, frame, k, cfg)
        s6 == EquityMark(s5, frame[k])
    IN [diag |-> s1, booked |-> s2, exited |-> s3, entered |-> s4,
        marked |-> IF s4.raised THEN s4 ELSE s6]

\* Lines 76-267: one iteration of the loop; stop_flag is absent or returns
\* False, and progress_cb is called at the end.
ProcessBar ==
    /\ pc = "loop"
    /\ Len(df) < total
    /\ \E row \in Rows(Len(df) + 1, filter_cols) :
       \E b \in {BarSteps(LoopState(cash, position, trades, equity_curve, counters),
                          Append(df, row), Len(df) + 1, filter_cols, config)} :
         LET s == b.marked
         IN /\ df' = Append(df, row)
            /\ cash' = s.cash
            /\ position' = s.position
            /\ trades' = s.trades
            /\ equity_curve' = s.equity_curve
            /\ counters' = s.counters
            /\ bar' = Some([start |-> position,
                            booked |-> b.booked.position,
                            exited |-> b.exited.position,
                            entered |-> b.entered.position])
            /\ pc' = IF s.raised THEN "raised" ELSE "loop"
            /\ progress' = IF s.raised THEN progress
                           ELSE Append(progress, <<Len(df) + 1, total>>)
    /\ UNCHANGED <<config, filter_cols, total, dropped, absent, result, other_vars>>

\* Lines 269-272: the frame is exhausted.
Return ==
    /\ pc = "loop"
    /\ Len(df) = total
    /\ pc' = "returned"
    /\ result' = Some([error |-> FALSE])
    /\ UNCHANGED <<config, filter_cols, total, dropped, absent, df, cash, position, trades,
                   equity_curve, counters, progress, bar, other_vars>>

Next == ReturnEmpty \/ Setup \/ Cancel \/ ProcessBar \/ Return

Spec == Init /\ [][Next]_vars

---------------------------------------------------------------------------
(* One call of a pure function of strategy_v5.py on arguments drawn from   *)
(* small sets.                                                             *)

\* (equity, risk_pct, entry_price, stop_price, max_notional_pct): ticks,
\* basis points, ticks, ticks, and None or basis points.
SizeArgs ==
    {-100000, 0, 100000, 1000000} \X {-100, 0, 100, 200}
        \X {-10000, 0, 9000, 10000} \X {9000, 10000, 10100}
        \X {NoCap, <<0>>, <<500>>, <<2000>>}

\* (pnl_pct, hold_bars, min_pnl_pct, min_hold_bars): parts per million and bars.
TightenArgs ==
    {-10000, 0, 1000, 2000, 10000} \X {0, 10, 16, 20}
        \X {-1000, 0, 2000, 8000} \X {0, 16}

\* The latest end_ms a gap search is given.
MaxMs == 5

\* The elements of a set of integers in ascending order.
RECURSIVE Ascending(_)
Ascending(S) ==
    IF S = {} THEN << >>
    ELSE LET m == MinOf(S) IN <<m>> \o Ascending(S \ {m})

\* The grid points start_ms + k * interval_ms of [start_ms, end_ms].
Grid(start_ms, end_ms, interval_ms) ==
    {t \in start_ms .. end_ms : (t - start_ms) % interval_ms = 0}

\* (start_ms, end_ms, interval_ms, open_times): what fetch_open_times returns,
\* the stored open times of the window in ascending order.
SegmentArgs ==
    UNION { { <<a, b, i, Ascending(S)>> : S \in SUBSET Grid(a, b, i) } :
            a \in 0 .. 1, b \in 0 .. MaxMs, i \in 1 .. 2 }

\* Lines 84-89: the gaps between the open times from the i-th on.
RECURSIVE GapsBetween(_, _, _)
GapsBetween(open_times, interval_ms, i) ==
    IF i >= Len(open_times) THEN << >>
    ELSE LET prev_t == open_times[i]
             next_t == open_times[i + 1]
             seg_start == prev_t + interval_ms
             seg_end == next_t - interval_ms
         IN (IF next_t - prev_t > interval_ms /\ seg_start <= seg_end
             THEN << <<seg_start, seg_end>> >> ELSE << >>)
            \o GapsBetween(open_times, interval_ms, i + 1)

\* data_store.calc_missing_segments
calc_missing_segments(start_ms, end_ms, interval_ms, open_times) ==
    IF start_ms > end_ms THEN << >>
    ELSE IF open_times = << >> THEN << <<start_ms, end_ms>> >>
    ELSE LET n == Len(open_times)
             head == IF open_times[1] > start_ms
                     THEN << <<start_ms, open_times[1] - interval_ms>> >>
                     ELSE << >>
             tail == IF open_times[n] < end_ms
                     THEN << <<open_times[n] + interval_ms, end_ms>> >>
                     ELSE << >>
         IN head \o GapsBetween(open_times, interval_ms, 1) \o tail

\* The most rows a frame given to validate_timeframe has.
MaxRows == 4

\* Milliseconds in an hour.
HourMs == 3600000

\* A timeframe string as its number and its suffix: "4h" is <<4, "h">>.
Timeframes == {<<4, "h">>, <<240, "m">>, <<3, "h">>, <<1, "w">>}

\* resample.timeframe_to_minutes: a ValueError for any suffix but m, h, d.
timeframe_to_minutes(tf) ==
    CASE tf[2] = "m" -> [raised |-> FALSE, value |-> tf[1]]
      [] tf[2] = "h" -> [raised |-> FALSE, value |-> tf[1] * 60]
      [] tf[2] = "d" -> [raised |-> FALSE, value |-> tf[1] * 60 * 24]
      [] OTHER -> [raised |-> TRUE, value |-> 0]

\* The open_time columns of frames sorted by time: bars 3 h, 4 h or 160 h
\* after the one before.
RECURSIVE OpenTimeColumns(_)
OpenTimeColumns(n) ==
    IF n = 0 THEN {<< >>}
    ELSE IF n = 1 THEN {<<0>>}
    ELSE {Append(c, c[Len(c)] + h * HourMs) :
            c \in OpenTimeColumns(n - 1), h \in {3, 4, 160}}

\* (df["open_time"], timeframe)
ValidateArgs ==
    UNION {OpenTimeColumns(n) \X Timeframes : n \in 0 .. MaxRows}

\* The first difference of the column, however often it occurs.
most_common_first_seen(diffs) ==
    diffs[1]

\* Counter(diffs).most_common(1)[0][0]: the difference that occurs most
\* often, and of several that do, the one that occurs first.
most_common(diffs) ==
    LET count(d) == Cardinality({n \in 1 .. Len(diffs) : diffs[n] = d})
        top(n) == \A m \in 1 .. Len(diffs) : count(diffs[m]) <= count(diffs[n])
        first == CHOOSE n \in 1 .. Len(diffs) :
                     top(n) /\ \A m \in 1 .. n - 1 : ~top(m)
    IN diffs[first]

\* resample.validate_timeframe: ok, or the exception raised.
validate_timeframe(open_time, timeframe) ==
    IF Len(open_time) < 2 THEN [raised |-> FALSE, ok |-> FALSE]
    ELSE LET minutes == timeframe_to_minutes(timeframe)
             interval_ms == minutes.value * 60000
             diffs == [n \in 1 .. Len(open_time) - 1 |->
                          open_time[n + 1] - open_time[n]]
             mode_ms == most_common(diffs)
             ok_interval == mode_ms = interval_ms
             bars_est == (open_time[Len(open_time)] - open_time[1]) \div interval_ms + 1
             bars_actual == Len(open_time)
             \* max(actual / max(est, 1), est / max(actual, 1)) <= 10
             ok_ratio == /\ bars_actual <= 10 * Max(bars_est, 1)
                         /\ bars_est <= 10 * Max(bars_actual, 1)
         IN IF minutes.raised THEN [raised |-> TRUE, ok |-> FALSE]
            ELSE [raised |-> FALSE, ok |-> ok_interval /\ ok_ratio]

InitFn ==
    /\ pc = "call"
    /\ config = BaseConfig
    /\ filter_cols = FALSE
    /\ total = 0
    /\ dropped = 0
    /\ absent = NoKey
    /\ df = << >>
    /\ Locals(config)
    /\ result = None
    /\ progress = << >>
    /\ bar = None
    /\ klines = {}
    /\ Unused
    /\ df2 = << >>
    /\ run2 = None
    /\ \/ \E a \in SizeArgs :
            call = [fn |-> "calculate_position_size", args |-> a, result |-> None]
       \/ \E a \in TightenArgs :
            call = [fn |-> "tp2_invalid_should_tighten", args |-> a, result |-> None]
       \/ \E a \in SegmentArgs :
            call = [fn |-> "calc_missing_segments", args |-> a, result |-> None]
       \/ \E a \in ValidateArgs :
            call = [fn |-> "validate_timeframe", args |-> a, result |-> None]

CallSize ==
    /\ pc = "call"
    /\ call.fn = "calculate_position_size"
    /\ call.result = None
    /\ call' = [call EXCEPT !.result =
                  Some(calculate_position_size(call.args[1], call.args[2],
                                               call.args[3], call.args[4],
                                               call.args[5]))]
    /\ UNCHANGED <<engine_vars, df2, run2, klines, rest_vars>>

CallTighten ==
    /\ pc = "call"
    /\ call.fn = "tp2_invalid_should_tighten"
    /\ call.result = None
    /\ call' = [call EXCEPT !.result =
                  Some(tp2_invalid_should_tighten(call.args[1], call.args[2],
                                                  call.args[3], call.args[4]))]
    /\ UNCHANGED <<engine_vars, df2, run2, klines, rest_vars>>

CallSegments ==
    /\ pc = "call"
    /\ call.fn = "calc_missing_segments"
    /\ call.result = None
    /\ call' = [call EXCEPT !.result =
                  Some(calc_missing_segments(call.args[1], call.args[2],
                                             call.args[3], call.args[4]))]
    /\ UNCHANGED <<engine_vars, df2, run2, klines, rest_vars>>

CallValidate ==
    /\ pc = "call"
    /\ call.fn = "validate_timeframe"
    /\ call.result = None
    /\ call' = [call EXCEPT !.result =
                  Some(validate_timeframe(call.args[1], call.args[2]))]
    /\ UNCHANGED <<engine_vars, df2, run2, klines, rest_vars>>

NextFn == CallSize \/ CallTighten \/ CallSegments \/ CallValidate

SpecFn == InitFn /\ [][NextFn]_vars

---------------------------------------------------------------------------
(* Two calls of run_backtest with trade_mode = long_only on frames that    *)
(* differ only in the columns adx_f and ema_fast_f, row by row.  The first *)
(* frame has no missing value; a row of the second may miss the two.       *)

MaxPairBars == 3

\* A row's adx_f and ema_fast_f are NaN.
Missing == << >>

\* The (adx_f, ema_fast_f) a row of the second frame may carry instead.
GateInputs == {<<30, 990>>, <<10, 1000>>, Missing}

\* Line 30: dropna() drops a row that has a NaN in any column.
dropna(g) == g # Missing

InitPair ==
    /\ pc = "start"
    /\ config = [BaseConfig EXCEPT !.trade_mode = "long_only"]
    /\ filter_cols = TRUE
    /\ total \in 1 .. MaxPairBars
    /\ dropped = 0
    /\ absent = NoKey
    /\ df = << >>
    /\ Locals(config)
    /\ result = None
    /\ progress = << >>
    /\ bar = None
    /\ klines = {}
    /\ Unused
    /\ df2 = << >>
    /\ run2 = Some(LoopState(config.initial_capital, None, << >>, << >>,
                             ZeroCounters))
    /\ call = NoCall

\* The second call's frame and loop state after the row that is row in the
\* first frame and carries the gate inputs g in the second: lines 76-267 on
\* it, unless dropna() has dropped it.
SecondRun(row, g) ==
    IF ~dropna(g) THEN [frame |-> df2, state |-> run2[1]]
    ELSE LET row2 == [row EXCEPT !.adx_f = g[1], !.ema_fast_f = g[2]]
             frame2 == Append(df2, row2)
         IN [frame |-> frame2,
             state |-> BarSteps(run2[1], frame2, Len(frame2), filter_cols,
                                config).marked]

\* Lines 76-267, once in each call: the same row but for the gate's inputs.
ProcessBarPair ==
    /\ pc = "loop"
    /\ Len(df) < total
    /\ run2 # None
    /\ \E row \in Rows(Len(df) + 1, filter_cols), g \in GateInputs :
       \E b \in {BarSteps(LoopState(cash, position, trades, equity_curve, counters),
                          Append(df, row), Len(df) + 1, filter_cols, config)} :
       \E r2 \in {SecondRun(row, g)} :
         LET s == b.marked
             s2 == r2.state
         IN /\ df' = Append(df, row)
            /\ df2' = r2.frame
            /\ cash' = s.cash
            /\ position' = s.position
            /\ trades' = s.trades
            /\ equity_curve' = s.equity_curve
            /\ counters' = s.counters
            /\ run2' = Some(s2)
            /\ bar' = Some([start |-> position,
                            booked |-> b.booked.position,
                            exited |-> b.exited.position,
                            entered |-> b.entered.position])
            /\ pc' = IF s.raised \/ s2.raised THEN "raised" ELSE "loop"
            /\ progress' = IF s.raised THEN progress
                           ELSE Append(progress, <<Len(df) + 1, total>>)
    /\ UNCHANGED <<config, filter_cols, total, dropped, absent, result, call, klines, rest_vars>>

NextPair == Setup \/ ProcessBarPair \/ Return

SpecPair == InitPair /\ [][NextPair]_vars

---------------------------------------------------------------------------
(* One call of run_backtest with a config mapping that lacks one key.  A   *)
(* subscript config[key] of an absent key raises KeyError where it is      *)
(* evaluated; config.get(key, default), at lines 39 and 241, returns the   *)
(* default.  Up to the first read of the absent key the call runs as it   *)
(* would with the key.                                                     *)

MaxCfgBars == 2

\* The keys run_backtest reads: those of config, of config["risk"] and of
\* config["v5"].
ConfigKeys ==
    {"v5", "risk", "fee_rate", "slippage_rate", "initial_capital", "trade_mode",
     "risk_per_trade_long", "risk_per_trade_short", "max_notional_pct_short",
     "ema_slope_lookback", "bear_adx_threshold", "atr_trail_mult",
     "atr_init_mult", "tp2_invalid_min_pnl_pct_long",
     "tp2_invalid_min_pnl_pct_short", "tp2_invalid_min_hold_bars",
     "tp2_invalid_action", "tighten_to"}

\* Lines 34-46: whether the statements before the loop subscript key.
SetupReads(key, has_filter) ==
    \/ key \in {"v5", "risk", "fee_rate", "slippage_rate", "initial_capital"}
    \/ has_filter /\ key \in {"ema_slope_lookback", "bear_adx_threshold"}

\* Lines 99-256: whether the iteration on row k, from the loop's state s,
\* subscripts key; b is the iteration's steps as they go with the key.
BarReads(key, s, b, frame, k, has_filter, cfg) ==
    LET row == frame[k]
        prev_row == PrevRow(frame, k)
        flat == b.exited.position = None
        long_attempt == flat /\ long_signal(row)
                        /\ LongAllowed(frame, k, has_filter, cfg)
        long_done == long_attempt /\ b.entered.position # None
        short_attempt == flat /\ ~long_done /\ short_signal(row)
                         /\ ShortAllowed(frame, k, has_filter, cfg)
                         /\ bear_pass(frame, k, has_filter, cfg)
        held == b.entered.position
        trigger == held # None /\ k - 1 > 0 /\ Trigger(held[1], row, prev_row)
        allow == trigger
                 /\ tp2_invalid_should_tighten(
                        PnlPct(held[1], row), held[1].hold_bars,
                        IF held[1].side = "LONG"
                        THEN cfg.tp2_invalid_min_pnl_pct_long
                        ELSE cfg.tp2_invalid_min_pnl_pct_short,
                        cfg.tp2_invalid_min_hold_bars)[1]
                 /\ cfg.tp2_invalid_action = "tighten_stop"
    IN CASE key = "atr_trail_mult" ->
                \/ s.position # None /\ prev_row # None
                \/ allow /\ cfg.tighten_to = "atr_trail" /\ prev_row # None
         [] key = "atr_init_mult" -> long_attempt \/ short_attempt
         [] key = "risk_per_trade_long" -> long_attempt
         [] key \in {"risk_per_trade_short", "max_notional_pct_short"} ->
                short_attempt
         [] key = "tp2_invalid_min_pnl_pct_long" ->
                trigger /\ held[1].side = "LONG"
         [] key = "tp2_invalid_min_pnl_pct_short" ->
                trigger /\ held[1].side = "SHORT"
         [] key = "tp2_invalid_min_hold_bars" -> trigger
         [] key = "tighten_to" -> allow
         [] OTHER -> FALSE

\* A config that lacks trade_mode or tp2_invalid_action runs with their
\* defaults, "both" and "tighten_stop": the values BaseConfig has.
InitCfg ==
    /\ pc = "start"
    /\ config = BaseConfig
    /\ filter_cols \in BOOLEAN
    /\ total \in 0 .. MaxCfgBars
    /\ dropped = 0
    /\ absent \in ConfigKeys
    /\ df = << >>
    /\ Locals(config)
    /\ result = None
    /\ progress = << >>
    /\ bar = None
    /\ klines = {}
    /\ Unused
    /\ df2 = << >>
    /\ run2 = None
    /\ call = NoCall

\* Lines 34-74 when a key may be absent.
SetupCfg ==
    /\ pc = "start"
    /\ total > 0
    /\ pc' = IF SetupReads(absent, filter_cols) THEN "raised" ELSE "loop"
    /\ UNCHANGED <<config, filter_cols, total, dropped, absent, df, cash, position,
                   trades, equity_curve, counters, result, progress, bar,
                   other_vars>>

\* Lines 76-267 when a key may be absent: the iteration raises KeyError
\* where it subscripts the absent key.
ProcessBarCfg ==
    /\ pc = "loop"
    /\ Len(df) < total
    /\ \E row \in Rows(Len(df) + 1, filter_cols) :
       \E b \in {BarSteps(LoopState(cash, position, trades, equity_curve, counters),
                          Append(df, row), Len(df) + 1, filter_cols, config)} :
         LET raises == BarReads(absent,
                                LoopState(cash, position, trades, equity_curve,
                                          counters),
                                b, Append(df, row), Len(df) + 1, filter_cols,
                                config)
             s == b.marked
         IN /\ df' = Append(df, row)
            /\ pc' = IF raises THEN "raised" ELSE "loop"
            /\ IF raises
               THEN UNCHANGED <<cash, position, trades, equity_curve, counters,
                                bar, progress>>
               ELSE /\ cash' = s.cash
                    /\ position' = s.position
                    /\ trades' = s.trades
                    /\ equity_curve' = s.equity_curve
                    /\ counters' = s.counters
                    /\ bar' = Some([start |-> position,
                                    booked |-> b.booked.position,
                                    exited |-> b.exited.position,
                                    entered |-> b.entered.position])
                    /\ progress' = Append(progress, <<Len(df) + 1, total>>)
    /\ UNCHANGED <<config, filter_cols, total, dropped, absent, result, other_vars>>

NextCfg == ReturnEmpty \/ SetupCfg \/ ProcessBarCfg \/ Return

SpecCfg == InitCfg /\ [][NextCfg]_vars

---------------------------------------------------------------------------
(* Two calls of run_backtest on the same frame object and the same config  *)
(* mapping, their steps interleaved in any order.  call holds what the two *)
(* calls share, the argument objects, and the second call's return value;  *)
(* the first call's locals are the engine's variables, the second call's   *)
(* are run2 and df2.                                                       *)

\* The longest frame the two calls are given, after its warm-up rows.
MaxTwoBars == 2

\* The columns of an execution frame, of the filter timeframe, and the ones
\* build_signals adds.
ExecColumns ==
    {"open_time", "high", "low", "close", "rsi", "macd_hist", "ema_fast",
     "ema_slow", "boll_mid", "boll_upper", "boll_lower", "atr", "adx"}

FilterColumns == {"adx_f", "ema_fast_f"}

SignalColumns ==
    {"long_candidate", "short_candidate", "entry_adx_ok_long",
     "entry_adx_ok_short", "long_signal", "short_signal", "touch_long",
     "touch_short"}

\* The sequences of n rows that start at index k.
RECURSIVE RowsFrom(_, _, _)
RowsFrom(k, n, has_filter) ==
    IF n = 0 THEN {<< >>}
    ELSE {<<r>> \o t : r \in Rows(k, has_filter),
                       t \in RowsFrom(k + 1, n - 1, has_filter)}

\* The first d rows of a frame, whose indicators are still NaN.
WarmUp(d, has_filter) ==
    [k \in 1 .. d |-> RowOf(k, "flat", 10000, 100, 20,
                            IF has_filter THEN 30 ELSE 0,
                            IF has_filter THEN 1000 ELSE 0)]

\* The frames a caller passes: its columns, the number of its leading rows
\* that hold a NaN, and its rows.
Frames(has_filter) ==
    UNION { { [columns |-> ExecColumns \cup (IF has_filter THEN FilterColumns ELSE {}),
               warmup |-> d,
               rows |-> WarmUp(d, has_filter) \o t] :
                 t \in RowsFrom(d + 1, n, has_filter) } :
            d \in 0 .. MaxDropped, n \in 0 .. MaxTwoBars }

\* build_signals writing its columns into the frame it was given.
build_signals_df_in_place(exec_df) ==
    LET df_ == [exec_df EXCEPT !.columns = @ \cup SignalColumns]
    IN [exec_df |-> df_, df |-> df_]

\* build_signals on a frame: the signal columns are added to a copy; exec_df
\* is the argument as the call leaves it and df the frame returned.
build_signals_df(exec_df) ==
    LET df_ == exec_df
    IN [exec_df |-> exec_df, df |-> [df_ EXCEPT !.columns = @ \cup SignalColumns]]

\* Line 30: df.dropna().reset_index(drop=True), the rows without a NaN.
dropna_rows(frame) == SubSeq(frame.rows, frame.warmup + 1, Len(frame.rows))

\* The value run_backtest returns.
Returned(error_, trades_, equity_curve_, counters_) ==
    [error |-> error_, trades |-> trades_, equity_curve |-> equity_curve_,
     counters |-> counters_]

InitTwo ==
    /\ pc = "start"
    /\ \/ config \in Configs /\ filter_cols = TRUE
       \/ config = BaseConfig /\ filter_cols = FALSE
    /\ call \in { [fn |-> "run_backtest", args |-> <<f, config>>, result |-> None] :
                    f \in Frames(filter_cols) }
    /\ total = Len(call.args[1].rows) - call.args[1].warmup
    /\ dropped = call.args[1].warmup
    /\ absent = NoKey
    /\ df = << >>
    /\ Locals(config)
    /\ result = None
    /\ progress = << >>
    /\ bar = None
    /\ klines = {}
    /\ Unused
    /\ df2 = << >>
    /\ run2 = None

\* Lines 29-74 of the first call: the signals, the warm-up rows dropped, the
\* empty-frame return, the locals.
FirstCall ==
    /\ pc = "start"
    /\ \E b \in {build_signals_df(call.args[1])} :
         /\ call' = [call EXCEPT !.args[1] = b.exec_df]
         /\ IF dropna_rows(b.df) = << >>
            THEN pc' = "returned" /\ result' = Some([error |-> TRUE])
            ELSE pc' = "loop" /\ result' = result
    /\ UNCHANGED <<config, filter_cols, total, dropped, absent, df, cash, position,
                   trades, equity_curve, counters, progress, bar, df2, run2, klines, rest_vars>>

\* Lines 76-267 of the first call on the next row of its frame.
ProcessBarFirst ==
    /\ pc = "loop"
    /\ Len(df) < total
    /\ \E row \in {dropna_rows(call.args[1])[Len(df) + 1]} :
       \E b \in {BarSteps(LoopState(cash, position, trades, equity_curve, counters),
                          Append(df, row), Len(df) + 1,
                          FilterColumns \subseteq call.args[1].columns, config)} :
         LET s == b.marked
         IN /\ df' = Append(df, row)
            /\ cash' = s.cash
            /\ position' = s.position
            /\ trades' = s.trades
            /\ equity_curve' = s.equity_curve
            /\ counters' = s.counters
            /\ bar' = Some([start |-> position,
                            booked |-> b.booked.position,
                            exited |-> b.exited.position,
                            entered |-> b.entered.position])
            /\ pc' = IF s.raised THEN "raised" ELSE "loop"
            /\ progress' = IF s.raised THEN progress
                           ELSE Append(progress, <<Len(df) + 1, total>>)
    /\ UNCHANGED <<config, filter_cols, total, dropped, absent, result, other_vars>>

\* Lines 29-74 of the second call, on the argument objects as they are then.
SecondCall ==
    /\ run2 = None
    /\ \E b \in {build_signals_df(call.args[1])} :
         LET cfg == call.args[2]
             fresh == LoopState(cfg.initial_capital, None, << >>, << >>, ZeroCounters)
         IN /\ run2' = Some(fresh)
            /\ call' = [call EXCEPT
                          !.args[1] = b.exec_df,
                          !.result = IF dropna_rows(b.df) = << >>
                                     THEN Some(Returned(TRUE, << >>, << >>, ZeroCounters))
                                     ELSE None]
    /\ UNCHANGED <<engine_vars, df2, klines, rest_vars>>

\* Lines 76-267 of the second call on the next row of its frame.
ProcessBarSecond ==
    /\ run2 # None
    /\ call.result = None
    /\ Len(df2) < Len(dropna_rows(call.args[1]))
    /\ \E row \in {dropna_rows(call.args[1])[Len(df2) + 1]} :
       \E b \in {BarSteps(run2[1], Append(df2, row), Len(df2) + 1,
                          FilterColumns \subseteq call.args[1].columns,
                          call.args[2])} :
         /\ df2' = Append(df2, row)
         /\ run2' = Some(b.marked)
    /\ UNCHANGED <<engine_vars, call, klines, rest_vars>>

\* Lines 269-272 of the second call.
ReturnSecond ==
    /\ run2 # None
    /\ call.result = None
    /\ Len(df2) = Len(dropna_rows(call.args[1]))
    /\ call' = [call EXCEPT !.result = Some(Returned(FALSE, run2[1].trades,
                                                     run2[1].equity_curve,
                                                     run2[1].counters))]
    /\ UNCHANGED <<engine_vars, df2, run2, klines, rest_vars>>

NextTwo ==
    FirstCall \/ ProcessBarFirst \/ Return \/ SecondCall \/ ProcessBarSecond
        \/ ReturnSecond

SpecTwo == InitTwo /\ [][NextTwo]_vars

---------------------------------------------------------------------------
(* Two calls of run_backtest with the same config on frames that agree up  *)
(* to some bar and differ at it, bar by bar, each bar in two steps: up to  *)
(* the stop-exit check (pc = "check"), and from it on.  The first call's   *)
(* locals are the engine's variables, the second call's are run2 and df2;  *)
(* bar is not kept.                                                        *)

\* The longest frame of the two calls.
MaxForkBars == 3

\* The configurations of the two calls: a tighten to the mid-band and one to
\* the trailing value.
ForkConfigs == {BaseConfig, [BaseConfig EXCEPT !.tighten_to = "atr_trail"]}

InitFork ==
    /\ pc = "start"
    /\ config \in ForkConfigs
    /\ filter_cols = TRUE
    /\ total \in 1 .. MaxForkBars
    /\ dropped = 0
    /\ absent = NoKey
    /\ df = << >>
    /\ Locals(config)
    /\ result = None
    /\ progress = << >>
    /\ bar = None
    /\ klines = {}
    /\ Unused
    /\ df2 = << >>
    /\ run2 = Some(LoopState(config.initial_capital, None, << >>, << >>,
                             ZeroCounters))
    /\ call = NoCall

\* Lines 80-113 on row k of the frame: the loop's state at the stop-exit
\* check.
AtStopCheck(s, frame, k, has_filter, cfg) ==
    Bookkeeping(Diagnostics(s, frame, k, has_filter, cfg), frame, k, cfg)

\* Lines 115-264 on row k of the frame, from the state at the stop-exit
\* check.
FromStopCheck(s, frame, k, has_filter, cfg) ==
    LET s3 == StopExit(s, frame[k], cfg)
        s4 == EntryCheck(s3, frame, k, has_filter, cfg)
        s5 == TightenCheck(s4, frame, k, cfg)
    IN IF s4.raised THEN s4 ELSE EquityMark(s5, frame[k])

\* Lines 76-113 in both calls: the frames have agreed so far and the next
\* rows may differ.
BookBar ==
    /\ pc = "loop"
    /\ Len(df) < total
    /\ df2 = df
    /\ \E row, row2 \in Rows(Len(df) + 1, filter_cols) :
       \E s \in {AtStopCheck(LoopState(cash, position, trades, equity_curve,
                                       counters),
                             Append(df, row), Len(df) + 1, filter_cols, config)} :
         /\ df' = Append(df, row)
         /\ df2' = Append(df2, row2)
         /\ cash' = s.cash
         /\ position' = s.position
         /\ counters' = s.counters
         /\ run2' = Some(AtStopCheck(run2[1], Append(df2, row2), Len(df2) + 1,
                                     filter_cols, config))
    /\ pc' = "check"
    /\ UNCHANGED <<config, filter_cols, total, dropped, absent, trades,
                   equity_curve, result, progress, bar, call, klines, rest_vars>>

\* Lines 115-267 in both calls.
FinishBar ==
    /\ pc = "check"
    /\ \E s \in {FromStopCheck(LoopState(cash, position, trades, equity_curve,
                                         counters),
                               df, Len(df), filter_cols, config)} :
         /\ cash' = s.cash
         /\ position' = s.position
         /\ trades' = s.trades
         /\ equity_curve' = s.equity_curve
         /\ counters' = s.counters
         /\ pc' = IF s.raised THEN "raised" ELSE "loop"
         /\ progress' = IF s.raised THEN progress
                        ELSE Append(progress, <<Len(df), total>>)
    /\ run2' = Some(FromStopCheck(run2[1], df2, Len(df2), filter_cols, config))
    /\ UNCHANGED <<config, filter_cols, total, dropped, absent, df, result, bar,
                   df2, call, klines, rest_vars>>

NextFork == Setup \/ BookBar \/ FinishBar \/ Return

SpecFork == InitFork /\ [][NextFork]_vars

---------------------------------------------------------------------------
(* One call of run_backtest on a frame long enough for a bar to fall out   *)
(* of the five-bar window of the structural stop, built from few rows.     *)

\* The longest frame of such a call.
MaxWindowBars == 6

\* The rows of such a frame, as <<kind, close, atr, adx, adx_f, ema_fast_f>>:
\* bars without a signal at a low and at a high price, a long candidate, a
\* long candidate on a dead bar, and a short candidate that passes the gate
\* after a bar without a signal.
WindowShapes ==
    { <<"flat", 9000, 100, 20, 30, 1000>>,
      <<"flat", 10400, 100, 20, 30, 1000>>,
      <<"bull", 10300, 100, 20, 30, 1000>>,
      <<"bull", 10300, 0, 20, 30, 1000>>,
      <<"bear", 10000, 100, 20, 30, 990>> }

WindowRows(k) ==
    {RowOf(k, g[1], g[2], g[3], g[4], g[5], g[6]) : g \in WindowShapes}

\* The configurations of such a call: with and without slippage.
WindowConfigs == {BaseConfig, [BaseConfig EXCEPT !.slippage_rate = 0]}

InitWindow ==
    /\ pc = "start"
    /\ config \in WindowConfigs
    /\ filter_cols = TRUE
    /\ total \in 1 .. MaxWindowBars
    /\ dropped = 0
    /\ absent = NoKey
    /\ df = << >>
    /\ Locals(config)
    /\ result = None
    /\ progress = << >>
    /\ bar = None
    /\ klines = {}
    /\ Unused
    /\ df2 = << >>
    /\ run2 = None
    /\ call = NoCall

\* Lines 76-267: one iteration of the loop on a row of the frame.
ProcessBarWindow ==
    /\ pc = "loop"
    /\ Len(df) < total
    /\ \E row \in WindowRows(Len(df) + 1) :
       \E b \in {BarSteps(LoopState(cash, position, trades, equity_curve, counters),
                          Append(df, row), Len(df) + 1, filter_cols, config)} :
         LET s == b.marked
         IN /\ df' = Append(df, row)
            /\ cash' = s.cash
            /\ position' = s.position
            /\ trades' = s.trades
            /\ equity_curve' = s.equity_curve
            /\ counters' = s.counters
            /\ bar' = Some([start |-> position,
                            booked |-> b.booked.position,
                            exited |-> b.exited.position,
                            entered |-> b.entered.position])
            /\ pc' = IF s.raised THEN "raised" ELSE "loop"
            /\ progress' = IF s.raised THEN progress
                           ELSE Append(progress, <<Len(df) + 1, total>>)
    /\ UNCHANGED <<config, filter_cols, total, dropped, absent, result, other_vars>>

NextWindow == Setup \/ ProcessBarWindow \/ Return

SpecWindow == InitWindow /\ [][NextWindow]_vars

---------------------------------------------------------------------------
(* data_store.py: calls of upsert_klines on one connection, the schema     *)
(* ensured and the table empty at first.  call holds the latest call: its  *)
(* series and batch, and the UpsertResult it returned.                     *)

\* The longest batch of rows a call is given.
MaxBatch == 2

\* (exchange, market_type, symbol, timeframe) of a call.
Series ==
    { <<"binance", "usdtm", "BTCUSDT", "4h">>,
      <<"binance", "usdtm", "BTCUSDT", "1h">> }

\* A row of a batch: prices in ticks.
KlineRow(open_time, close) ==
    [open_time |-> open_time, open |-> 1000, high |-> 1100, low |-> 900,
     close |-> close, volume |-> 10000, close_time |-> open_time + 1]

BatchRows == {KlineRow(t, c) : t \in {1, 2}, c \in {1050, 1080}}

Batches == UNION {[1 .. n -> BatchRows] : n \in 0 .. MaxBatch}

\* UpsertResult()
NoneUpserted == [inserted |-> 0, updated |-> 0, skipped |-> 0]

\* The row of the table that an INSERT of row under series writes.
TableRow(series, row) ==
    [exchange |-> series[1], market_type |-> series[2], symbol |-> series[3],
     timeframe |-> series[4], open_time |-> row.open_time, open |-> row.open,
     high |-> row.high, low |-> row.low, close |-> row.close,
     volume |-> row.volume, close_time |-> row.close_time]

\* WHERE exchange=? AND market_type=? AND symbol=? AND timeframe=? AND open_time=?
Where(table, series, open_time) ==
    {r \in table : /\ r.exchange = series[1]
                   /\ r.market_type = series[2]
                   /\ r.symbol = series[3]
                   /\ r.timeframe = series[4]
                   /\ r.open_time = open_time}

\* The six columns the SELECT reads and the UPDATE sets.
Selected(r) == <<r.open, r.high, r.low, r.close, r.volume, r.close_time>>

\* The loop body with the UPDATE issued for every row that exists.
UpsertRow_always_updates(st, series, row) ==
    LET matching == Where(st.table, series, row.open_time)
    IN IF matching = {}
       THEN [table |-> st.table \cup {TableRow(series, row)},
             result |-> [st.result EXCEPT !.inserted = @ + 1]]
       ELSE [table |-> (st.table \ matching) \cup
                           {TableRow(series, row) : r \in matching},
             result |-> [st.result EXCEPT !.updated = @ + 1]]

\* Lines 114-183: the loop body on one row of the batch.
UpsertRow(st, series, row) ==
    LET matching == Where(st.table, series, row.open_time)
    IN IF matching = {}
       THEN [table |-> st.table \cup {TableRow(series, row)},
             result |-> [st.result EXCEPT !.inserted = @ + 1]]
       ELSE LET existing == CHOOSE r \in matching : TRUE
            IN IF Selected(existing) = Selected(row)
               THEN [st EXCEPT !.result.skipped = @ + 1]
               ELSE [table |-> (st.table \ matching) \cup
                                   {TableRow(series, row) : r \in matching},
                     result |-> [st.result EXCEPT !.updated = @ + 1]]

\* Lines 113-183: the loop from the i-th row of the batch on.
RECURSIVE UpsertFrom(_, _, _, _)
UpsertFrom(st, series, batch, i) ==
    IF i > Len(batch) THEN st
    ELSE UpsertFrom(UpsertRow(st, series, batch[i]), series, batch, i + 1)

\* data_store.upsert_klines: the table after the commit and the result.
upsert_klines(table, series, batch) ==
    UpsertFrom([table |-> table, result |-> NoneUpserted], series, batch, 1)

InitStore ==
    /\ pc = "call"
    /\ config = BaseConfig
    /\ filter_cols = FALSE
    /\ total = 0
    /\ dropped = 0
    /\ absent = NoKey
    /\ df = << >>
    /\ Locals(config)
    /\ result = None
    /\ progress = << >>
    /\ bar = None
    /\ klines = {}
    /\ Unused
    /\ df2 = << >>
    /\ run2 = None
    /\ call = NoCall

\* One call of upsert_klines, committed.
Upsert ==
    /\ pc = "call"
    /\ \E series \in Series, batch \in Batches :
       \E r \in {upsert_klines(klines, series, batch)} :
         /\ klines' = r.table
         /\ call' = [fn |-> "upsert_klines", args |-> <<series, batch>>,
                     result |-> Some(r.result)]
    /\ UNCHANGED <<engine_vars, df2, run2, rest_vars>>

NextStore == Upsert

SpecStore == InitStore /\ [][NextStore]_vars

---------------------------------------------------------------------------
(* One call of run_backtest with its optional callbacks, each bar in three  *)
(* steps: the poll of stop_flag (pc = "loop" to "bar"), the bar's           *)
(* processing up to its equity point (to "report"), and the call of         *)
(* progress_cb (back to "loop").  call holds which callbacks the caller     *)
(* gave; polls holds what stop_flag returned.                               *)

\* The bars of a frame.
MaxPollBars == 3

InitPoll ==
    /\ pc = "start"
    /\ config = BaseConfig
    /\ filter_cols = TRUE
    /\ total \in 0 .. MaxPollBars
    /\ dropped = 0
    /\ absent = NoKey
    /\ df = << >>
    /\ Locals(config)
    /\ result = None
    /\ progress = << >>
    /\ bar = None
    /\ klines = {}
    /\ df2 = << >>
    /\ run2 = None
    /\ \E given \in [{"stop_flag", "progress_cb"} -> BOOLEAN] :
         call = [fn |-> "run_backtest", args |-> given, result |-> None]
    /\ polls = << >>
    /\ worker = None
    /\ trader = None
    /\ api = None

\* Lines 76-78: if stop_flag and stop_flag(): break.  A stop_flag that is
\* not given is not called; True leaves the loop for the return at lines
\* 269-272.
Poll ==
    /\ pc = "loop"
    /\ Len(df) < total
    /\ IF call.args["stop_flag"]
       THEN \E r \in BOOLEAN :
              /\ polls' = Append(polls, r)
              /\ pc' = IF r THEN "returned" ELSE "bar"
              /\ result' = IF r THEN Some([error |-> FALSE]) ELSE result
       ELSE /\ polls' = polls
            /\ pc' = "bar"
            /\ result' = result
    /\ UNCHANGED <<config, filter_cols, total, dropped, absent, df, cash, position, trades,
                   equity_curve, counters, progress, bar, df2, run2, call, klines,
                   worker, trader, api>>

\* Lines 80-264: the bar, from its diagnostics counters to its equity point.
ProcessBarPolled ==
    /\ pc = "bar"
    /\ \E row \in Rows(Len(df) + 1, filter_cols) :
       \E b \in {BarSteps(LoopState(cash, position, trades, equity_curve, counters),
                          Append(df, row), Len(df) + 1, filter_cols, config)} :
         LET s == b.marked
         IN /\ df' = Append(df, row)
            /\ cash' = s.cash
            /\ position' = s.position
            /\ trades' = s.trades
            /\ equity_curve' = s.equity_curve
            /\ counters' = s.counters
            /\ bar' = Some([start |-> position,
                            booked |-> b.booked.position,
                            exited |-> b.exited.position,
                            entered |-> b.entered.position])
            /\ pc' = IF s.raised THEN "raised" ELSE "report"
    /\ UNCHANGED <<config, filter_cols, total, dropped, absent, result, progress,
                   other_vars>>

\* The progress call given the bars done for both of its arguments.
Report_bars_done_twice ==
    /\ pc = "report"
    /\ progress' = IF call.args["progress_cb"]
                   THEN Append(progress, <<Len(df), Len(df)>>)
                   ELSE progress
    /\ pc' = "loop"
    /\ UNCHANGED <<config, filter_cols, total, dropped, absent, df, cash, position, trades,
                   equity_curve, counters, result, bar, other_vars>>

\* Lines 266-267: if progress_cb: progress_cb(i + 1, len(df))
Report ==
    /\ pc = "report"
    /\ progress' = IF call.args["progress_cb"]
                   THEN Append(progress, <<Len(df), total>>)
                   ELSE progress
    /\ pc' = "loop"
    /\ UNCHANGED <<config, filter_cols, total, dropped, absent, df, cash, position, trades,
                   equity_curve, counters, result, bar, other_vars>>

NextPoll == ReturnEmpty \/ Setup \/ Poll \/ ProcessBarPolled \/ Report \/ Return

SpecPoll == InitPoll /\ [][NextPoll]_vars

---------------------------------------------------------------------------
(* ui_main.py: one invocation of BacktestWorker.run on the worker thread,   *)
(* with MainWindow._on_stop able to call stop() from the interface thread   *)
(* at any moment.  What the collaborators return (the segments to fetch,    *)
(* the fetch's outcome, the rows upserted, the checks on the loaded frame)  *)
(* is drawn from small sets.                                                *)

\* The segments of a download.
MaxSegments == 2

\* The rows of a fetched segment.
MaxFetched == 2

\* report.py lines 72-78: the parameters of summarize.
summarize_params == <<"trades", "equity", "counters", "config", "symbol">>

\* ui_main.py lines 234-241: the positional arguments run passes to summarize.
summarize_args ==
    <<"trades_df", "equity_df", "counters", "cfg", "symbol", "adx_4h_quantiles">>

\* A call binds its positional arguments to the parameters in order; more
\* arguments than parameters is a TypeError.
Binds(args, params) == Len(args) <= Len(params)

\* self.finished.emit(payload), the payload by its kind.
Emit(w, payload) == [w EXCEPT !.emitted = Append(@, payload), !.pc = "done"]

\* Lines 80-85: the worker as constructed, run not yet started.
InitWorker ==
    /\ pc = "call"
    /\ config = BaseConfig
    /\ filter_cols = TRUE
    /\ total = 0
    /\ dropped = 0
    /\ absent = NoKey
    /\ df = << >>
    /\ Locals(config)
    /\ result = None
    /\ progress = << >>
    /\ bar = None
    /\ klines = {}
    /\ df2 = << >>
    /\ run2 = None
    /\ call = NoCall
    /\ polls = << >>
    /\ worker = [pc |-> "start", stop_event |-> FALSE, segments |-> 0,
                 inserted |-> 0, updated |-> 0, skipped |-> 0, emitted |-> << >>]
    /\ trader = None
    /\ api = None

\* Lines 87-88: stop() sets the event; _on_stop calls it while a run is on.
WorkerStop ==
    /\ worker.pc \notin {"done", "raised"}
    /\ ~worker.stop_event
    /\ worker' = [worker EXCEPT !.stop_event = TRUE]
    /\ UNCHANGED <<engine_vars, df2, run2, call, klines, polls, trader, api>>

\* Lines 90-127: the set-up, up to the segments to download.
WorkerStart ==
    /\ worker.pc = "start"
    /\ \E n \in 0 .. MaxSegments :
         worker' = [worker EXCEPT !.pc = "segment", !.segments = n]
    /\ UNCHANGED <<engine_vars, df2, run2, call, klines, polls, trader, api>>

\* Lines 128-172: one segment of the download loop: the stop check, the
\* fetch, and the upsert of what was fetched.
WorkerSegment ==
    /\ worker.pc = "segment"
    /\ worker.segments > 0
    /\ IF worker.stop_event
       THEN worker' = Emit(worker, "stopped")
       ELSE \/ worker' = Emit(worker, "error")
            \/ worker' = [worker EXCEPT !.segments = @ - 1]
            \/ \E i, u, s \in 0 .. MaxFetched :
                 /\ i + u + s \in 1 .. MaxFetched
                 /\ worker' = [worker EXCEPT !.segments = @ - 1,
                                             !.inserted = @ + i,
                                             !.updated = @ + u,
                                             !.skipped = @ + s]
    /\ UNCHANGED <<engine_vars, df2, run2, call, klines, polls, trader, api>>

\* Lines 174-204: the available range, the frame loaded and its self-checks;
\* each failure emits an error payload and returns.
WorkerLoad ==
    /\ worker.pc = "segment"
    /\ worker.segments = 0
    /\ \E outcome \in {"no_data", "empty", "bars_ratio", "timeframe", "ok"} :
         worker' = IF outcome = "ok" THEN [worker EXCEPT !.pc = "backtest"]
                   ELSE Emit(worker, "error")
    /\ UNCHANGED <<engine_vars, df2, run2, call, klines, polls, trader, api>>

\* Lines 206-226: the frames prepared and run_backtest called with
\* stop_flag = self._stop_event.is_set; a set event ends its loop at the next
\* bar.
WorkerBacktest ==
    /\ worker.pc = "backtest"
    /\ worker' = [worker EXCEPT !.pc = "ran"]
    /\ UNCHANGED <<engine_vars, df2, run2, call, klines, polls, trader, api>>

\* Lines 227-230: the stop check after the backtest.
WorkerStopped ==
    /\ worker.pc = "ran"
    /\ worker' = IF worker.stop_event THEN Emit(worker, "stopped")
                 ELSE [worker EXCEPT !.pc = "report"]
    /\ UNCHANGED <<engine_vars, df2, run2, call, klines, polls, trader, api>>

\* Lines 232-256: the report (the call of summarize), the export and the
\* result payload.  An exception leaves run before it emits.
WorkerReport ==
    /\ worker.pc = "report"
    /\ worker' = IF Binds(summarize_args, summarize_params)
                 THEN Emit(worker, "result")
                 ELSE [worker EXCEPT !.pc = "raised"]
    /\ UNCHANGED <<engine_vars, df2, run2, call, klines, polls, trader, api>>

NextWorker ==
    \/ WorkerStop
    \/ WorkerStart
    \/ WorkerSegment
    \/ WorkerLoad
    \/ WorkerBacktest
    \/ WorkerStopped
    \/ WorkerReport

SpecWorker == InitWorker /\ [][NextWorker]_vars

---------------------------------------------------------------------------
(* live_trader.py: one call of LiveTrader.run on a trader as constructed,   *)
(* with the owner of stop_event able to set it at any moment.  Amounts are  *)
(* in USDT and whole units of the symbol, times in seconds.  What the       *)
(* exchange answers in an iteration (the latest bar's signals, or an        *)
(* exception from any of its calls) is drawn from small sets; the position  *)
(* it reports is the one the orders placed have left.                       *)

\* The iterations of the loop.
MaxIterations == 4

\* config["live"] and trade_mode, mode already upper-cased.
LiveBase ==
    [mode |-> "LIVE", poll_seconds |-> 30, max_notional_usdt |-> 100,
     max_position_usdt |-> 0, cooldown_seconds |-> 60,
     kill_switch_max_errors |-> 2, trade_mode |-> "both"]

\* The configurations a trader is given: the base one, and the base one
\* changed in one respect.
LiveConfigs ==
    { LiveBase,
      [LiveBase EXCEPT !.mode = "DRY-RUN"],
      [LiveBase EXCEPT !.max_notional_usdt = 0],
      [LiveBase EXCEPT !.max_position_usdt = 50],
      [LiveBase EXCEPT !.max_position_usdt = 150],
      [LiveBase EXCEPT !.cooldown_seconds = 0],
      [LiveBase EXCEPT !.kill_switch_max_errors = 0],
      [LiveBase EXCEPT !.kill_switch_max_errors = 3],
      [LiveBase EXCEPT !.trade_mode = "long_only"],
      [LiveBase EXCEPT !.trade_mode = "short_only"] }

\* The latest bar of an iteration: none obtained (the fetch raises, or there
\* is no usable bar), or a bar with its signal (build_signals raises
\* long_signal and short_signal on disjoint conditions) and whether it is a
\* bar not seen before.
LatestBars ==
    { [outcome |-> o, signal |-> "none", new_bar |-> FALSE] : o \in {"raise", "empty"} }
    \cup [outcome : {"bar"}, signal : {"none", "long", "short"}, new_bar : BOOLEAN]

\* What the calls of one iteration meet: the latest bar, and for
\* get_position and place_order "raise" or "ok".
LiveInputs == [klines : LatestBars, position : {"raise", "ok"}, order : {"raise", "ok"}]

\* The close of the latest bar.
LastPrice == 100

\* Lines 44-49: _record appends the payload to the report.
Record(t, action) == [t EXCEPT !.report = Append(@, action)]

\* An exception leaves _loop_once; what it did so far stays done.
Raised(t) == [t EXCEPT !.iter.failed = TRUE]

\* An order, real or simulated, noted for the iteration.
Ordered(t, kind, side) ==
    [t EXCEPT !.iter.orders = @ + 1, !.iter.kind = kind, !.iter.side = side,
              !.last_order_ts = t.now]

\* binance_api.place_order as the exchange sees it: a market order, which
\* moves the position, or with reduce_only closes it.
Placed(t, side, qty, reduce_only) ==
    [t EXCEPT !.placed = Append(@, [side |-> side, qty |-> qty,
                                    reduce_only |-> reduce_only, at |-> t.now]),
              !.position_amt = IF reduce_only THEN 0
                               ELSE IF side = "BUY" THEN @ + qty ELSE @ - qty]

\* The open made whether or not max_position_usdt allows it.
open_position_uncapped(t, side, price, position_notional, order) ==
    LET max_notional == t.live.max_notional_usdt
        qty == IF price > 0 THEN max_notional \div price ELSE 0
    IN IF max_notional <= 0 THEN t
       ELSE IF qty <= 0 THEN t
       ELSE IF t.live.mode # "LIVE"
            THEN Ordered(Record(t, "open"), "open", side)
       ELSE IF order = "raise" THEN Raised(t)
       ELSE Ordered(Record(Placed(t, side, qty, FALSE), "open"), "open", side)

\* Lines 183-233: _open_position.
open_position(t, side, price, position_notional, order) ==
    LET max_notional == t.live.max_notional_usdt
        max_position == t.live.max_position_usdt
        qty == IF price > 0 THEN max_notional \div price ELSE 0
    IN IF max_notional <= 0 THEN t
       ELSE IF max_position > 0 /\ position_notional + max_notional > max_position
            THEN t
       ELSE IF qty <= 0 THEN t
       ELSE IF t.live.mode # "LIVE"
            THEN Ordered(Record(t, "open"), "open", side)
       ELSE IF order = "raise" THEN Raised(t)
       ELSE Ordered(Record(Placed(t, side, qty, FALSE), "open"), "open", side)

\* Lines 235-264: _close_position.
close_position(t, side, qty, order) ==
    IF qty <= 0 THEN t
    ELSE IF t.live.mode # "LIVE"
         THEN Ordered(Record(t, "close"), "close", side)
    ELSE IF order = "raise" THEN Raised(t)
    ELSE Ordered(Record(Placed(t, side, qty, TRUE), "close"), "close", side)

\* Lines 110-181: _loop_once.
loop_once(t, in) ==
    LET allow_long_ == t.live.trade_mode \in {"both", "long_only"}
        allow_short_ == t.live.trade_mode \in {"both", "short_only"}
    IN IF in.klines.outcome = "raise" THEN Raised(t)
       ELSE IF in.klines.outcome = "empty" THEN t
       ELSE
       LET long_signal_ == in.klines.signal = "long"
           short_signal_ == in.klines.signal = "short"
           open_time == IF in.klines.new_bar \/ t.last_signal_time = None
                        THEN t.now ELSE t.last_signal_time[1]
           t1 == IF t.last_signal_time # Some(open_time)
                 THEN Record([t EXCEPT !.last_signal_time = Some(open_time)], "signal")
                 ELSE t
       IN IF in.position = "raise" THEN Raised(t1)
          ELSE
          LET position_amt == t1.position_amt
              position_notional == Abs(position_amt * LastPrice)
              has_position == Abs(position_amt) > 0
              t2 == [t1 EXCEPT !.iter.amt = position_amt,
                               !.iter.long = long_signal_,
                               !.iter.short = short_signal_]
          IN IF t2.now - t2.last_order_ts < t2.live.cooldown_seconds THEN t2
             ELSE IF ~has_position
                  THEN IF long_signal_ /\ allow_long_
                       THEN open_position(t2, "BUY", LastPrice, position_notional,
                                          in.order)
                       ELSE IF short_signal_ /\ allow_short_
                            THEN open_position(t2, "SELL", LastPrice,
                                               position_notional, in.order)
                            ELSE t2
             ELSE IF position_amt > 0 /\ short_signal_ /\ allow_short_
                  THEN close_position(t2, "SELL", Abs(position_amt), in.order)
             ELSE IF position_amt < 0 /\ long_signal_ /\ allow_long_
                  THEN close_position(t2, "BUY", Abs(position_amt), in.order)
             ELSE t2

\* The iteration's notes before it starts.
NoIter ==
    [failed |-> FALSE, orders |-> 0, kind |-> "none", side |-> "none",
     amt |-> 0, long |-> FALSE, short |-> FALSE]

\* Lines 17-31: the trader as constructed, run not yet called; the symbol's
\* position on the exchange is flat, long or short.
InitLive ==
    /\ pc = "call"
    /\ config = BaseConfig
    /\ filter_cols = TRUE
    /\ total = 0
    /\ dropped = 0
    /\ absent = NoKey
    /\ df = << >>
    /\ Locals(config)
    /\ result = None
    /\ progress = << >>
    /\ bar = None
    /\ klines = {}
    /\ df2 = << >>
    /\ run2 = None
    /\ call = NoCall
    /\ polls = << >>
    /\ worker = None
    /\ \E live \in LiveConfigs, amt \in {-1, 0, 1} :
         trader = [pc |-> "start", live |-> live, stop_event |-> FALSE,
                   error_count |-> 0, last_order_ts |-> 0,
                   last_signal_time |-> None, report |-> << >>,
                   position_amt |-> amt, placed |-> << >>, now |-> 1000,
                   iterations |-> 0, streak |-> 0, iter |-> NoIter]
    /\ api = None

\* The owner of stop_event sets it.
LiveSetStop ==
    /\ trader.pc # "returned"
    /\ ~trader.stop_event
    /\ trader' = [trader EXCEPT !.stop_event = TRUE]
    /\ UNCHANGED <<engine_vars, df2, run2, call, klines, polls, worker, api>>

\* Lines 51-78: the config read and the start recorded.
LiveStart ==
    /\ trader.pc = "start"
    /\ trader' = [Record(trader, "start") EXCEPT !.pc = "loop"]
    /\ UNCHANGED <<engine_vars, df2, run2, call, klines, polls, worker, api>>

\* The kill switch taken to trip only past the limit.
LiveIterate_trips_late ==
    /\ trader.pc = "loop"
    /\ ~trader.stop_event
    /\ trader.iterations < MaxIterations
    /\ \E in \in LiveInputs :
       \E t \in {loop_once([trader EXCEPT !.iter = NoIter, !.iterations = @ + 1], in)} :
         trader' =
           IF ~t.iter.failed
           THEN [t EXCEPT !.error_count = 0, !.streak = 0, !.pc = "wait"]
           ELSE LET t1 == Record([t EXCEPT !.error_count = @ + 1,
                                           !.streak = @ + 1], "error")
                IN IF t1.error_count > t1.live.kill_switch_max_errors
                   THEN [Record(t1, "kill_switch") EXCEPT !.pc = "exit"]
                   ELSE [t1 EXCEPT !.pc = "wait"]
    /\ UNCHANGED <<engine_vars, df2, run2, call, klines, polls, worker, api>>

\* Lines 80-102: stop_event is not set at the top of the loop; one
\* iteration, its error counted or the count reset, and the kill switch.
LiveIterate ==
    /\ trader.pc = "loop"
    /\ ~trader.stop_event
    /\ trader.iterations < MaxIterations
    /\ \E in \in LiveInputs :
       \E t \in {loop_once([trader EXCEPT !.iter = NoIter, !.iterations = @ + 1], in)} :
         trader' =
           IF ~t.iter.failed
           THEN [t EXCEPT !.error_count = 0, !.streak = 0, !.pc = "wait"]
           ELSE LET t1 == Record([t EXCEPT !.error_count = @ + 1,
                                           !.streak = @ + 1], "error")
                IN IF t1.error_count >= t1.live.kill_switch_max_errors
                   THEN [Record(t1, "kill_switch") EXCEPT !.pc = "exit"]
                   ELSE [t1 EXCEPT !.pc = "wait"]
    /\ UNCHANGED <<engine_vars, df2, run2, call, klines, polls, worker, api>>

\* Line 80: stop_event is set at the top of the loop.
LiveLeave ==
    /\ trader.pc = "loop"
    /\ trader.stop_event
    /\ trader' = [trader EXCEPT !.pc = "exit"]
    /\ UNCHANGED <<engine_vars, df2, run2, call, klines, polls, worker, api>>

\* Lines 103-104: stop_event.wait(poll_seconds) returns True at once when
\* the event is set, and False after poll_seconds when it is not.
LiveWait ==
    /\ trader.pc = "wait"
    /\ trader' = IF trader.stop_event THEN [trader EXCEPT !.pc = "exit"]
                 ELSE [trader EXCEPT !.pc = "loop",
                                     !.now = @ + trader.live.poll_seconds]
    /\ UNCHANGED <<engine_vars, df2, run2, call, klines, polls, worker, api>>

\* Lines 106-108: the stop recorded and run returns.
LiveReturn ==
    /\ trader.pc = "exit"
    /\ trader' = [Record(trader, "stop") EXCEPT !.pc = "returned"]
    /\ UNCHANGED <<engine_vars, df2, run2, call, klines, polls, worker, api>>

NextLive ==
    \/ LiveSetStop
    \/ LiveStart
    \/ LiveIterate
    \/ LiveLeave
    \/ LiveWait
    \/ LiveReturn

SpecLive == InitLive /\ [][NextLive]_vars

---------------------------------------------------------------------------
(* binance_api.py: one call of BinanceAPI.fetch_klines.  Times are in units *)
(* of a millisecond grid; the exchange's answer to a page request is drawn  *)
(* from small sets, whether or not it respects the startTime it was asked   *)
(* for: a batch is its number of rows and the open_time of its last row.    *)

\* The latest end_ms of a call.
MaxEnd == 3

\* The rows of a full page (limit = 1500 in the code).
PageLimit == 2

\* The page requests of a call.
MaxPages == 6

\* The answers to a page request: self._call raises, or returns a batch.
PageAnswers ==
    { [outcome |-> "raise", n |-> 0, last_open |-> 0] }
    \cup { [outcome |-> "batch", n |-> 0, last_open |-> 0] }
    \cup [outcome : {"batch"}, n : 1 .. PageLimit, last_open : 0 .. MaxEnd + 1]

\* Lines 142-154: the call's arguments and its locals before the loop.
InitFetch ==
    /\ pc = "call"
    /\ config = BaseConfig
    /\ filter_cols = TRUE
    /\ total = 0
    /\ dropped = 0
    /\ absent = NoKey
    /\ df = << >>
    /\ Locals(config)
    /\ result = None
    /\ progress = << >>
    /\ bar = None
    /\ klines = {}
    /\ df2 = << >>
    /\ run2 = None
    /\ call = NoCall
    /\ polls = << >>
    /\ worker = None
    /\ trader = None
    /\ \E start_ms \in 0 .. 1, end_ms \in 0 .. MaxEnd, interval_ms \in 1 .. 2,
          given \in BOOLEAN :
         api = [fn |-> "fetch_klines", pc |-> "loop",
                start_ms |-> start_ms, end_ms |-> end_ms,
                interval_ms |-> interval_ms, progress_cb |-> given,
                cursor |-> start_ms, fetched |-> 0, reported |-> << >>,
                pages |-> 0, asked |-> None, batch |-> None, in_order |-> TRUE]

\* The cursor set to the last row of the batch instead of the row after it.
FetchPage_cursor_on_last_row ==
    /\ api.fn = "fetch_klines"
    /\ api.pc = "loop"
    /\ api.cursor <= api.end_ms
    /\ api.pages < MaxPages
    /\ \E b \in PageAnswers :
         LET a == [api EXCEPT !.pages = @ + 1, !.asked = Some(api.cursor),
                              !.batch = Some(b),
                              !.in_order = @ /\ (b.n > 0 => b.last_open >= api.cursor)]
         IN api' =
              IF b.outcome = "raise" THEN [a EXCEPT !.pc = "raised"]
              ELSE IF b.n = 0 THEN [a EXCEPT !.pc = "returned"]
              ELSE [a EXCEPT
                      !.fetched = @ + b.n,
                      !.cursor = b.last_open,
                      !.reported = IF api.progress_cb THEN Append(@, api.fetched + b.n)
                                   ELSE @,
                      !.pc = IF b.n < PageLimit THEN "returned" ELSE "loop"]
    /\ UNCHANGED <<engine_vars, df2, run2, call, klines, polls, worker, trader>>

\* Lines 155-183: one page: the request, the break on an empty batch, the
\* rows appended, the cursor moved past the last row, the progress call and
\* the break on a short batch.
FetchPage ==
    /\ api.fn = "fetch_klines"
    /\ api.pc = "loop"
    /\ api.cursor <= api.end_ms
    /\ api.pages < MaxPages
    /\ \E b \in PageAnswers :
         LET a == [api EXCEPT !.pages = @ + 1, !.asked = Some(api.cursor),
                              !.batch = Some(b),
                              !.in_order = @ /\ (b.n > 0 => b.last_open >= api.cursor)]
         IN api' =
              IF b.outcome = "raise" THEN [a EXCEPT !.pc = "raised"]
              ELSE IF b.n = 0 THEN [a EXCEPT !.pc = "returned"]
              ELSE [a EXCEPT
                      !.fetched = @ + b.n,
                      !.cursor = b.last_open + api.interval_ms,
                      !.reported = IF api.progress_cb THEN Append(@, api.fetched + b.n)
                                   ELSE @,
                      !.pc = IF b.n < PageLimit THEN "returned" ELSE "loop"]
    /\ UNCHANGED <<engine_vars, df2, run2, call, klines, polls, worker, trader>>

\* Lines 155 and 184: the cursor is past end_ms; the rows are returned.
FetchReturn ==
    /\ api.fn = "fetch_klines"
    /\ api.pc = "loop"
    /\ api.cursor > api.end_ms
    /\ api' = [api EXCEPT !.pc = "returned"]
    /\ UNCHANGED <<engine_vars, df2, run2, call, klines, polls, worker, trader>>

NextFetch == FetchPage \/ FetchReturn

SpecFetch == InitFetch /\ [][NextFetch]_vars

---------------------------------------------------------------------------
(* binance_api.py: one call of BinanceAPI._call on a client constructed     *)
(* with some retries argument.  What an invocation of the wrapped function  *)
(* does, return a value or raise one of the exceptions _call catches, is    *)
(* drawn from small sets.                                                   *)

\* The largest retries argument.
MaxRetries == 3

\* What an invocation of func does.
Invocations ==
    [kind : {"return"}, value : {"a", "b"}]
    \cup [kind : {"raise"},
          value : {"BinanceAPIException", "BinanceRequestException", "Exception"}]

\* Lines 13-22 and 203-204: self.retries = max(0, retries); _call entered.
InitRetry ==
    /\ pc = "call"
    /\ config = BaseConfig
    /\ filter_cols = TRUE
    /\ total = 0
    /\ dropped = 0
    /\ absent = NoKey
    /\ df = << >>
    /\ Locals(config)
    /\ result = None
    /\ progress = << >>
    /\ bar = None
    /\ klines = {}
    /\ df2 = << >>
    /\ run2 = None
    /\ call = NoCall
    /\ polls = << >>
    /\ worker = None
    /\ trader = None
    /\ \E retries \in -1 .. MaxRetries :
         api = [fn |-> "_call", pc |-> "for", retries |-> Max(0, retries),
                attempt |-> 0, invoked |-> << >>, last_exc |-> None,
                sleeps |-> 0, result |-> None]

\* The loop taken over one attempt more than range(self.retries + 1) has.
CallAttempt_one_more ==
    /\ api.fn = "_call"
    /\ api.pc = "for"
    /\ api.attempt < api.retries + 2
    /\ \E f \in Invocations :
         LET a == [api EXCEPT !.invoked = Append(@, f)]
         IN api' =
              IF f.kind = "return"
              THEN [a EXCEPT !.pc = "returned", !.result = Some(f.value)]
              ELSE [a EXCEPT !.last_exc = Some(f.value),
                             !.sleeps = IF api.attempt < api.retries THEN @ + 1 ELSE @,
                             !.attempt = @ + 1]
    /\ UNCHANGED <<engine_vars, df2, run2, call, klines, polls, worker, trader>>

\* Lines 205-211: one attempt of for attempt in range(self.retries + 1): the
\* value func returns is returned at once; an exception is kept, and slept
\* on when an attempt is left.
CallAttempt ==
    /\ api.fn = "_call"
    /\ api.pc = "for"
    /\ api.attempt < api.retries + 1
    /\ \E f \in Invocations :
         LET a == [api EXCEPT !.invoked = Append(@, f)]
         IN api' =
              IF f.kind = "return"
              THEN [a EXCEPT !.pc = "returned", !.result = Some(f.value)]
              ELSE [a EXCEPT !.last_exc = Some(f.value),
                             !.sleeps = IF api.attempt < api.retries THEN @ + 1 ELSE @,
                             !.attempt = @ + 1]
    /\ UNCHANGED <<engine_vars, df2, run2, call, klines, polls, worker, trader>>

\* Line 212: the attempts are used up; RuntimeError is raised.
CallGiveUp ==
    /\ api.fn = "_call"
    /\ api.pc = "for"
    /\ api.attempt >= api.retries + 1
    /\ api' = [api EXCEPT !.pc = "raised"]
    /\ UNCHANGED <<engine_vars, df2, run2, call, klines, polls, worker, trader>>

NextRetry == CallAttempt \/ CallGiveUp

SpecRetry == InitRetry /\ [][NextRetry]_vars

---------------------------------------------------------------------------
(* Claims about the pure functions, under SpecFn                           *)

SizeDone == call.fn = "calculate_position_size" /\ call.result # None
TightenDone == call.fn = "tp2_invalid_should_tighten" /\ call.result # None

\* C3: tp2_invalid_should_tighten is a total decision table checked in the
\* order loss, profit_gate, hold_gate: it returns (False, "loss") iff
\* pnl_pct <= 0; (False, "profit_gate") iff 0 < pnl_pct < min_pnl_pct;
\* (False, "hold_gate") iff pnl_pct > 0, pnl_pct >= min_pnl_pct and
\* hold_bars < min_hold_bars; (True, "allow") otherwise; exactly one case
\* applies and allowed is true only with the reason "allow".
C3_TightenDecisionTable ==
    TightenDone =>
        LET pnl_pct == call.args[1]
            hold_bars == call.args[2]
            min_pnl_pct == call.args[3]
            min_hold_bars == call.args[4]
            r == call.result[1]
            loss == pnl_pct <= 0
            profit_gate == 0 < pnl_pct /\ pnl_pct < min_pnl_pct
            hold_gate == pnl_pct > 0 /\ pnl_pct >= min_pnl_pct
                         /\ hold_bars < min_hold_bars
        IN /\ (r = <<FALSE, "loss">>) <=> loss
           /\ (r = <<FALSE, "profit_gate">>) <=> profit_gate
           /\ (r = <<FALSE, "hold_gate">>) <=> hold_gate
           /\ (r = <<TRUE, "allow">>) <=> ~(loss \/ profit_gate \/ hold_gate)
           /\ r \in {<<FALSE, "loss">>, <<FALSE, "profit_gate">>,
                     <<FALSE, "hold_gate">>, <<TRUE, "allow">>}
           /\ r[1] <=> (r[2] = "allow")

\* The hold gate decides a call whose pnl has cleared the profit gate:
\* tests/test_tp2_invalid.py's (0.01, 10, 0.002, 16).
C3_Witness ==
    /\ TightenDone
    /\ call.args = <<10000, 10, 2000, 16>>
    /\ call.result[1] = <<FALSE, "hold_gate">>

\* The quantities of the sizer's contract, in the model's units.
BaseQty(equity, risk_pct, entry_price, stop_price) ==
    (Rate(equity, risk_pct) * 1000) \div Abs(entry_price - stop_price)
CapQty(equity, max_notional_pct, entry_price) ==
    (Rate(equity, max_notional_pct) * 1000) \div entry_price

\* C4 as stated: for entry_price > 0 and entry_price != stop_price the sizer
\* returns (equity*risk_pct)/|entry_price - stop_price| without a cap and the
\* min of that and (equity*max_notional_pct)/entry_price with one.
C4_AsStated ==
    (SizeDone /\ call.args[3] > 0 /\ call.args[3] # call.args[4]) =>
        LET a == call.args
            base == BaseQty(a[1], a[2], a[3], a[4])
        IN /\ ~call.result[1].raised
           /\ call.result[1].value =
                 IF a[5] = NoCap THEN base
                 ELSE Min(base, CapQty(a[1], a[5][1], a[3]))

\* C4, amended: for entry_price > 0 and entry_price != stop_price the sizer
\* returns (equity*risk_pct)/|entry_price - stop_price| floored at 0 without
\* a cap, and the min of that base and (equity*max_notional_pct)/entry_price,
\* floored at 0, with one, so the result never exceeds a non-negative cap;
\* (10000, 0.01, 100, 90, 0.05) gives 5 and (10000, 0.01, 100, 90, None) 10.
C4_SizeFlooredAtZero ==
    (SizeDone /\ call.args[3] > 0 /\ call.args[3] # call.args[4]) =>
        LET a == call.args
            base == BaseQty(a[1], a[2], a[3], a[4])
            v == call.result[1].value
        IN /\ ~call.result[1].raised
           /\ a[5] = NoCap => v = Max(base, 0)
           /\ a[5] # NoCap =>
                 /\ v = Max(Min(base, CapQty(a[1], a[5][1], a[3])), 0)
                 /\ v <= Max(CapQty(a[1], a[5][1], a[3]), 0)
           /\ a = <<1000000, 100, 10000, 9000, <<500>>>> => v = 5000
           /\ a = <<1000000, 100, 10000, 9000, NoCap>> => v = 10000

\* The capped example of tests/test_risk_position.py: the cap, not the risk,
\* sets the quantity.
C4_Witness ==
    /\ SizeDone
    /\ call.args = <<1000000, 100, 10000, 9000, <<500>>>>
    /\ call.result[1].value = 5000
    /\ BaseQty(1000000, 100, 10000, 9000) = 10000

\* C5 as stated: the sizer never raises, returns 0 when entry_price <= 0 or
\* entry_price = stop_price, never returns a negative quantity, and returns 0
\* for a non-positive equity or a non-positive risk fraction.
C5_AsStated ==
    SizeDone =>
        LET a == call.args
            r == call.result[1]
        IN /\ ~r.raised
           /\ (a[3] <= 0 \/ a[3] = a[4]) => r.value = 0
           /\ r.value >= 0
           /\ (a[1] <= 0 \/ a[2] <= 0) => r.value = 0

\* C5, amended: the sizer never raises, returns 0 when entry_price <= 0 or
\* entry_price = stop_price, never returns a negative quantity, and returns 0
\* when the risked amount equity*risk_pct is not positive.
C5_FailsClosed ==
    SizeDone =>
        LET a == call.args
            r == call.result[1]
        IN /\ ~r.raised
           /\ (a[3] <= 0 \/ a[3] = a[4]) => r.value = 0
           /\ r.value >= 0
           /\ a[1] * a[2] <= 0 => r.value = 0

\* A call with money to risk and no distance to the stop returns 0.
C5_Witness ==
    /\ SizeDone
    /\ call.args[1] > 0 /\ call.args[2] > 0
    /\ call.args[3] > 0 /\ call.args[3] = call.args[4]
    /\ call.result[1] = [raised |-> FALSE, value |-> 0]

ValidateDone == call.fn = "validate_timeframe" /\ call.result # None

\* How often the difference d occurs between consecutive open times.
DiffCount(open_time, d) ==
    Cardinality({n \in 1 .. Len(open_time) - 1 : open_time[n + 1] - open_time[n] = d})

\* The differences between consecutive open times.
DiffsOf(open_time) ==
    {open_time[n + 1] - open_time[n] : n \in 1 .. Len(open_time) - 1}

\* The ratio between the estimated and the actual bar count is at most 10.
RatioAtMost10(open_time, interval_ms) ==
    LET bars_est == (open_time[Len(open_time)] - open_time[1]) \div interval_ms + 1
    IN /\ Len(open_time) <= 10 * bars_est
       /\ bars_est <= 10 * Len(open_time)

\* C23 as stated: validate_timeframe returns ok = True exactly when the
\* frame has at least 2 rows, the most frequent difference between
\* consecutive open_time values equals the timeframe's interval in
\* milliseconds, and the ratio between estimated and actual bar counts is at
\* most 10; otherwise it returns ok = False.
C23_AsStated ==
    ValidateDone =>
        LET open_time == call.args[1]
            interval_ms == timeframe_to_minutes(call.args[2]).value * 60000
            r == call.result[1]
        IN /\ ~r.raised
           /\ r.ok <=> /\ Len(open_time) >= 2
                       /\ interval_ms \in DiffsOf(open_time)
                       /\ \A d \in DiffsOf(open_time) \ {interval_ms} :
                             DiffCount(open_time, d) < DiffCount(open_time, interval_ms)
                       /\ RatioAtMost10(open_time, interval_ms)

\* C23: for a frame sorted by open_time, validate_timeframe raises exactly
\* when the frame has at least 2 rows and the timeframe has no suffix m, h or
\* d; otherwise it returns ok = True exactly when the frame has at least 2
\* rows, no difference between consecutive open_time values is more frequent
\* than the timeframe's interval, none as frequent occurs before the
\* interval's first occurrence, and the ratio between estimated and actual
\* bar counts is at most 10.
C23_ValidateTimeframe ==
    ValidateDone =>
        LET open_time == call.args[1]
            tf == call.args[2]
            interval_ms == timeframe_to_minutes(tf).value * 60000
            r == call.result[1]
            first == CHOOSE n \in 1 .. Len(open_time) - 1 :
                         /\ open_time[n + 1] - open_time[n] = interval_ms
                         /\ \A m \in 1 .. n - 1 :
                               open_time[m + 1] - open_time[m] # interval_ms
        IN /\ r.raised <=> (Len(open_time) >= 2 /\ tf[2] \notin {"m", "h", "d"})
           /\ ~r.raised =>
                 (r.ok <=> /\ Len(open_time) >= 2
                           /\ interval_ms \in DiffsOf(open_time)
                           /\ \A d \in DiffsOf(open_time) :
                                 DiffCount(open_time, d) <= DiffCount(open_time, interval_ms)
                           /\ \A m \in 1 .. first - 1 :
                                 DiffCount(open_time, open_time[m + 1] - open_time[m])
                                     < DiffCount(open_time, interval_ms)
                           /\ RatioAtMost10(open_time, interval_ms))

\* Bars 4 h and then 3 h apart, validated as 4h: both differences occur once
\* and the frame passes.
C23_Witness ==
    /\ ValidateDone
    /\ call.args = << <<0, 4 * HourMs, 7 * HourMs>>, <<4, "h">> >>
    /\ call.result[1] = [raised |-> FALSE, ok |-> TRUE]

SegmentsDone == call.fn = "calc_missing_segments" /\ call.result # None

\* The grid points a segment covers.
Covered(seg, start_ms, end_ms, interval_ms) ==
    {t \in Grid(start_ms, end_ms, interval_ms) : seg[1] <= t /\ t <= seg[2]}

\* C21: calc_missing_segments: for sorted open_times lying in
\* [start_ms, end_ms] on the grid start_ms + k*interval_ms, the returned
\* segments are exactly the maximal runs of grid points of [start_ms, end_ms]
\* that are absent from open_times, in ascending order, each with
\* start <= end and none containing an existing open_time; an empty
\* open_times gives [(start_ms, end_ms)] and start_ms > end_ms gives [].
C21_SegmentsAreMaximalGaps ==
    SegmentsDone =>
        LET start_ms == call.args[1]
            end_ms == call.args[2]
            interval_ms == call.args[3]
            open_times == call.args[4]
            segs == call.result[1]
            present == {open_times[n] : n \in 1 .. Len(open_times)}
            absent_ == Grid(start_ms, end_ms, interval_ms) \ present
            cover(n) == Covered(segs[n], start_ms, end_ms, interval_ms)
        IN /\ start_ms > end_ms => segs = << >>
           /\ (start_ms <= end_ms /\ open_times = << >>)
                 => segs = << <<start_ms, end_ms>> >>
           /\ \A n \in 1 .. Len(segs) :
                 /\ segs[n][1] <= segs[n][2]
                 /\ cover(n) \cap present = {}
                 /\ segs[n][1] \in absent_
                 /\ segs[n][1] - interval_ms \notin absent_
                 /\ \A t \in absent_ : t - interval_ms \in cover(n) => t \in cover(n)
           /\ \A n \in 1 .. Len(segs) - 1 : segs[n][2] < segs[n + 1][1]
           /\ UNION {cover(n) : n \in 1 .. Len(segs)} = absent_

\* The same with end_ms on the grid.
C21_OnGridEnd ==
    (SegmentsDone /\ (call.args[2] - call.args[1]) % call.args[3] = 0)
        => C21_SegmentsAreMaximalGaps

---------------------------------------------------------------------------
(* Claims about run_backtest, under Spec                                   *)

\* The loop is running or has returned a result without the error marker.
Simulating ==
    \/ pc = "loop"
    \/ pc = "returned" /\ result = Some([error |-> FALSE])

\* The latest bar closed the position it started with.
StoppedOutThisBar ==
    /\ Len(trades) > 0
    /\ trades[Len(trades)].exit_time = df[Len(df)].open_time

\* C1: after any sequence of processed bars at most one Position is open
\* (every entry but the open one has been closed into a trade), and an entry
\* is made only on a bar where no position is open at the entry check: the
\* bar started flat or its position was stopped out earlier in the same bar.
C1_AtMostOnePosition ==
    /\ counters["entries_total"] - Len(trades) = IF position = None THEN 0 ELSE 1
    /\ counters["entries_total"] =
           counters["entries_long"] + counters["entries_short"]
    /\ bar # None =>
          LET b == bar[1]
          IN b.entered # b.exited =>
                /\ b.exited = None
                /\ b.entered # None
                /\ b.start = None \/ StoppedOutThisBar

\* A bar that stops the open position out and enters a new one.
C1_Witness ==
    /\ bar # None
    /\ bar[1].start # None
    /\ bar[1].exited = None
    /\ bar[1].entered # None
    /\ StoppedOutThisBar
    /\ position = bar[1].entered

\* new is a looser stop than old for a position of the given side.
Looser(side, new, old) == IF side = "LONG" THEN new < old ELSE new > old

\* The position open after the step is the one that was open before it.
SamePosition ==
    /\ position # None
    /\ position' # None
    /\ position'[1].entry_time = position[1].entry_time

\* C2: over the life of one position the active stop_price never loosens
\* from bar to bar (non-decreasing for a LONG, non-increasing for a SHORT),
\* whether the trailing update or a committed pending stop changes it, and a
\* pending_stop, when staged, is no looser than the active stop.
C2_StopNeverLoosens ==
    [][ /\ SamePosition =>
              ~Looser(position[1].side, position'[1].stop_price,
                      position[1].stop_price)
        /\ (position' # None /\ position'[1].pending_stop # None) =>
              ~Looser(position'[1].side, position'[1].pending_stop[1],
                      position'[1].stop_price)
      ]_vars

\* A position that came through the latest bar with a strictly tighter stop.
C2_Witness ==
    /\ bar # None
    /\ bar[1].start # None
    /\ position # None
    /\ position[1].entry_time = bar[1].start[1].entry_time
    /\ Looser(position[1].side, bar[1].start[1].stop_price,
              position[1].stop_price)

\* The secondary regime gate on row j of the frame, from its inputs: the
\* filter ADX is at least bear_adx_threshold and the filter EMA is below its
\* value ema_slope_lookback bars earlier.
GateTrue(j) ==
    /\ filter_cols
    /\ j > config.ema_slope_lookback
    /\ df[j].adx_f >= config.bear_adx_threshold
    /\ df[j].ema_fast_f < df[j - config.ema_slope_lookback].ema_fast_f

\* The bars on which a SHORT held or closed so far was opened.
ShortEntryBars ==
    {trades[n].entry_time + 1 : n \in {m \in 1 .. Len(trades) : trades[m].side = "SHORT"}}
        \cup (IF position # None /\ position[1].side = "SHORT"
              THEN {position[1].entry_time + 1} ELSE {})

NoSignals ==
    \A j \in 1 .. Len(df) :
        ~build_signals(df[j]).long_signal /\ ~build_signals(df[j]).short_signal

\* C8: if long_signal and short_signal are false on every bar, run_backtest
\* records zero trades, opens no position, charges no fee, and every equity
\* point equals initial_capital.
C8_NoSignalsNoTrades ==
    (Simulating /\ NoSignals) =>
        /\ trades = << >>
        /\ position = None
        /\ counters["entries_total"] = 0
        /\ cash = config.initial_capital
        /\ Len(equity_curve) = Len(df)
        /\ \A j \in 1 .. Len(equity_curve) :
               equity_curve[j].equity = config.initial_capital

\* A returned run of at least three bars, none with a signal, that reached
\* the entry checks of both sides.
C8_Witness ==
    /\ pc = "returned"
    /\ result = Some([error |-> FALSE])
    /\ Len(df) = total
    /\ total >= 3
    /\ NoSignals
    /\ Len(equity_curve) = total

\* The loop's state after an uncancelled run over the first k rows of frame.
RECURSIVE RunBars(_, _, _, _)
RunBars(frame, k, has_filter, cfg) ==
    IF k = 0
    THEN LoopState(cfg.initial_capital, None, << >>, << >>, ZeroCounters)
    ELSE BarSteps(RunBars(frame, k - 1, has_filter, cfg),
                  frame, k, has_filter, cfg).marked

\* stop_flag returned True at the poll before bar Len(df) (0-based).
Cancelled == pc = "returned" /\ result # None /\ Len(df) < total

\* C9: cancellation is a partial result, not an error: when stop_flag first
\* returns true at the poll before bar k (0-based) the loop halts without
\* processing bar k, and run_backtest returns without the error marker
\* exactly k equity points, only trades closed in bars 0..k-1, and the
\* trades, equity and counters of an uncancelled run on the first k bars;
\* cancelled at the first poll it returns no trades, no equity points and
\* all counters zero.
C9_CancelIsPartialResult ==
    Cancelled =>
        LET k == Len(df)
            r == RunBars(df, k, filter_cols, config)
        IN /\ result = Some([error |-> FALSE])
           /\ Len(equity_curve) = k
           /\ Len(progress) = k
           /\ \A n \in 1 .. Len(trades) : trades[n].exit_time \in 0 .. k - 1
           /\ trades = r.trades
           /\ equity_curve = r.equity_curve
           /\ counters = r.counters
           /\ counters["beargate_pass"] + counters["beargate_fail"] = k
           /\ k = 0 => /\ trades = << >>
                       /\ equity_curve = << >>
                       /\ counters = ZeroCounters

\* A run cancelled after two bars or more, with a closed trade and a
\* position still open.
C9_Witness ==
    /\ Cancelled
    /\ Len(df) >= 2
    /\ Len(trades) >= 1
    /\ position # None
    /\ counters["beargate_pass"] + counters["beargate_fail"] = Len(df)

\* C10: after every processed bar exactly one EquityPoint has been appended
\* for that bar, whatever happened in it: the equity curve has one point per
\* processed bar, in bar order with the bar's open_time, and in an
\* uncancelled run its length is the number of simulated bars.
C10_OneEquityPointPerBar ==
    Simulating =>
        /\ Len(equity_curve) = Len(df)
        /\ \A j \in 1 .. Len(df) : equity_curve[j].open_time = df[j].open_time
        /\ (pc = "returned" /\ ~Cancelled) => Len(equity_curve) = total

\* An uncancelled run whose bars include an exit, an entry, a tighten and a
\* bar spent flat.
C10_Witness ==
    /\ pc = "returned"
    /\ ~Cancelled
    /\ result = Some([error |-> FALSE])
    /\ Len(equity_curve) = total
    /\ Len(trades) >= 1
    /\ counters["tp2_invalid_tighten_count"] >= 1
    /\ position = None
    /\ bar # None /\ bar[1].start = None /\ bar[1].entered = None

---------------------------------------------------------------------------
(* Claims about pairs of calls of run_backtest, under SpecPair             *)

\* C7 as stated: with trade_mode = long_only, two runs on frames that differ
\* only in adx_f and ema_fast_f produce identical trades and identical
\* equity curves, and the beargate_short_blocked counter stays 0.
C7_AsStated ==
    run2 # None =>
        /\ run2[1].trades = trades
        /\ run2[1].equity_curve = equity_curve
        /\ counters["beargate_short_blocked"] = 0
        /\ run2[1].counters["beargate_short_blocked"] = 0

\* Neither frame has lost a row to dropna().
NoRowDropped == Len(df2) = Len(df)

\* C7, amended: the secondary regime gate never blocks a LONG entry and
\* never counts as a short block when short trading is disabled: with
\* trade_mode = long_only the beargate_short_blocked counter stays 0, and two
\* runs on frames that differ only in adx_f and ema_fast_f, neither of them
\* missing (NaN) on any row, produce identical trades and identical equity
\* curves.
C7_GateIgnoredWhenLongOnly ==
    run2 # None =>
        /\ config.trade_mode = "long_only"
        /\ counters["beargate_short_blocked"] = 0
        /\ run2[1].counters["beargate_short_blocked"] = 0
        /\ counters["entries_short"] = 0
        /\ run2[1].counters["entries_short"] = 0
        /\ NoRowDropped =>
              /\ run2[1].trades = trades
              /\ run2[1].equity_curve = equity_curve
              /\ run2[1].position = position

\* Two runs on frames without a missing value that traded, met a short
\* candidate, and whose gates passed on different numbers of bars, one of
\* them on the bar of a LONG entry.
C7_Witness ==
    /\ run2 # None
    /\ NoRowDropped
    /\ df2 # df
    /\ Len(trades) >= 1
    /\ counters["candidates_short"] >= 1
    /\ run2[1].counters["beargate_pass"] # counters["beargate_pass"]
    /\ \E n \in 1 .. Len(trades) :
          LET j == trades[n].entry_time + 1
          IN bear_pass(df2, j, filter_cols, config)
                 # bear_pass(df, j, filter_cols, config)

---------------------------------------------------------------------------
(* Claims about one bar of run_backtest, under Spec                        *)

\* The step processes one bar and the loop goes on.
BarProcessed == pc = "loop" /\ pc' = "loop" /\ Len(df') = Len(df) + 1

\* The counters of the tighten check.
TightenCounters(c) ==
    <<c["tp2_invalid_blocked_by_loss"], c["tp2_invalid_blocked_by_hold"],
      c["tp2_invalid_blocked_by_profit_gate"], c["tp2_invalid_tighten_count"]>>

\* The stop of position p once the bar after row prev has committed its
\* pending stop and then applied the trailing update.
StopAfterBookkeeping(p, prev) ==
    LET committed == IF p.pending_stop # None THEN p.pending_stop[1]
                     ELSE p.stop_price
    IN IF p.side = "LONG"
       THEN Max(committed, prev.close - prev.atr * config.atr_trail_mult)
       ELSE Min(committed, prev.close + prev.atr * config.atr_trail_mult)

\* C11: a position open at the start of bar i is closed in bar i if and only
\* if, after the bar's bookkeeping (pending-stop commit, then trailing
\* update), the bar's low <= stop_price for a LONG or its high >= stop_price
\* for a SHORT; the exit is decided before the entry check and the tighten
\* check of the same bar, and a position never exits on the bar it was
\* opened.
C11_StopExitRule ==
    [][ BarProcessed =>
          LET row == df'[Len(df')]
              b == bar'[1]
          IN /\ b.start = position
             /\ position = None => trades' = trades
             /\ position # None =>
                  LET p == position[1]
                      stop == StopAfterBookkeeping(p, df[Len(df)])
                      hit == \/ p.side = "LONG" /\ row.low <= stop
                             \/ p.side = "SHORT" /\ row.high >= stop
                      closed == /\ Len(trades') = Len(trades) + 1
                                /\ SubSeq(trades', 1, Len(trades)) = trades
                                /\ trades'[Len(trades')].entry_time = p.entry_time
                                /\ trades'[Len(trades')].exit_time = row.open_time
                  IN /\ b.booked[1].stop_price = stop
                     /\ hit <=> closed
                     /\ hit <=> (b.exited = None)
                     /\ ~hit => /\ trades' = trades
                                /\ position' # None
                                /\ position'[1].entry_time = p.entry_time
                                /\ position'[1].stop_price = stop
                     /\ hit => /\ position' = b.entered
                               /\ TightenCounters(counters') = TightenCounters(counters)
      ]_vars

\* A bar whose bookkeeping moved the stop of the open position, and whose
\* low or high then touched the moved stop exactly.
C11_Witness ==
    /\ bar # None
    /\ bar[1].start # None
    /\ bar[1].exited = None
    /\ bar[1].booked[1].stop_price # bar[1].start[1].stop_price
    /\ LET row == df[Len(df)]
           p == bar[1].booked[1]
       IN \/ p.side = "LONG" /\ row.low = p.stop_price
          \/ p.side = "SHORT" /\ row.high = p.stop_price

\* The latest bar opened a position.
EnteredThisBar ==
    /\ bar # None
    /\ bar[1].entered # None
    /\ bar[1].exited = None

\* C12: every recorded Trade has exit_time > entry_time, qty > 0 and
\* hold_bars equal to its exit index minus its entry index, hence >= 1 (the
\* frame's open_time, strictly increasing, is the bar index here); a new
\* position starts with hold_bars = 0, tp2_tightened false and no
\* pending_stop, whatever the previous position was.
C12_TradeShape ==
    /\ \A n \in 1 .. Len(trades) :
          /\ trades[n].exit_time > trades[n].entry_time
          /\ trades[n].qty > 0
          /\ trades[n].hold_bars = trades[n].exit_time - trades[n].entry_time
          /\ trades[n].hold_bars >= 1
    /\ EnteredThisBar =>
          /\ bar[1].entered[1].hold_bars = 0
          /\ bar[1].entered[1].tp2_tightened = FALSE
          /\ bar[1].entered[1].pending_stop = None
          /\ bar[1].entered[1].entry_time = df[Len(df)].open_time
          /\ bar[1].entered[1].qty > 0
    /\ position # None =>
          position[1].hold_bars = df[Len(df)].open_time - position[1].entry_time

\* A position held for two bars and tightened is stopped out on the bar
\* that opens the next position.
C12_Witness ==
    /\ EnteredThisBar
    /\ bar[1].start # None
    /\ bar[1].start[1].tp2_tightened
    /\ bar[1].start[1].pending_stop # None
    /\ trades[Len(trades)].hold_bars >= 2
    /\ position = bar[1].entered

\* C13: a stop staged into pending_stop by an allowed tighten on bar N
\* leaves stop_price unchanged during bar N, becomes the active stop_price
\* at the start of bar N+1 before that bar's trailing update and stop-exit
\* check, and pending_stop is empty again after the commit; pending_stop is
\* never non-empty for more than one bar boundary.
C13_TightenTakesEffectNextBar ==
    [][ BarProcessed =>
          LET row == df'[Len(df')]
              b == bar'[1]
              staged == counters'["tp2_invalid_tighten_count"]
                            = counters["tp2_invalid_tighten_count"] + 1
          IN /\ b.booked # None => b.booked[1].pending_stop = None
             /\ staged <=> (position' # None /\ position'[1].pending_stop # None)
             /\ ~staged =>
                   counters'["tp2_invalid_tighten_count"]
                       = counters["tp2_invalid_tighten_count"]
             /\ staged =>
                   /\ position # None
                   /\ position'[1].entry_time = position[1].entry_time
                   /\ position'[1].stop_price = b.booked[1].stop_price
                   /\ position'[1].tp2_tightened
             /\ (position # None /\ position[1].pending_stop # None) =>
                   LET pending == position[1].pending_stop[1]
                       prev == df[Len(df)]
                       trail == IF position[1].side = "LONG"
                                THEN prev.close - prev.atr * config.atr_trail_mult
                                ELSE prev.close + prev.atr * config.atr_trail_mult
                       stop == IF position[1].side = "LONG"
                               THEN Max(pending, trail) ELSE Min(pending, trail)
                       hit == IF position[1].side = "LONG"
                              THEN row.low <= stop ELSE row.high >= stop
                   IN /\ b.booked[1].stop_price = stop
                      /\ hit <=> (b.exited = None)
      ]_vars

\* A staged stop tighter than the active one is committed at the next bar,
\* whose low or high reaches it without reaching the stop it replaced.
C13_Witness ==
    /\ bar # None
    /\ bar[1].start # None
    /\ bar[1].start[1].pending_stop # None
    /\ bar[1].booked[1].stop_price = bar[1].start[1].pending_stop[1]
    /\ bar[1].booked[1].pending_stop = None
    /\ bar[1].exited = None
    /\ LET row == df[Len(df)]
           old == bar[1].start[1]
       IN IF old.side = "LONG" THEN row.low > old.stop_price
          ELSE row.high < old.stop_price

\* How much counter name grows in the step.
Growth(name) == counters'[name] - counters[name]

\* C14: at most one entry happens per bar (entries_total grows by at most
\* 1); the long entry is attempted before the short entry, and when a long
\* entry is executed on a bar the short check of that bar is skipped, so
\* neither candidates_short nor beargate_short_blocked nor entries_short
\* changes on that bar.
C14_OneEntryPerBar ==
    [][ BarProcessed =>
          LET row == df'[Len(df')]
              b == bar'[1]
              checked == b.exited = None
          IN /\ Growth("entries_total") \in {0, 1}
             /\ Growth("entries_total")
                    = Growth("entries_long") + Growth("entries_short")
             /\ Growth("entries_total") = 1 <=> (checked /\ b.entered # None)
             /\ Growth("candidates_long")
                    = IF checked /\ long_signal(row) THEN 1 ELSE 0
             /\ Growth("entries_long") = 1 =>
                    /\ b.entered[1].side = "LONG"
                    /\ Growth("candidates_long") = 1
                    /\ Growth("candidates_short") = 0
                    /\ Growth("beargate_short_blocked") = 0
                    /\ Growth("entries_short") = 0
             /\ Growth("candidates_short")
                    = IF checked /\ Growth("entries_long") = 0 /\ short_signal(row)
                      THEN 1 ELSE 0
      ]_vars

\* A bar that stops a SHORT out and opens a LONG, in a run that has counted
\* a short candidate.
C14_Witness ==
    /\ EnteredThisBar
    /\ bar[1].entered[1].side = "LONG"
    /\ bar[1].start # None
    /\ bar[1].start[1].side = "SHORT"
    /\ counters["candidates_short"] >= 1
    /\ counters["entries_total"] = 2

\* The realized pnl of trade t: its gross pnl minus its exit fee.
Realized(t) ==
    (IF t.side = "LONG" THEN Notional(t.exit_price - t.entry_price, t.qty)
     ELSE Notional(t.entry_price - t.exit_price, t.qty))
        - Rate(Notional(t.exit_price, t.qty), config.fee_rate)

\* C15: for every recorded Trade, reason is 'TrailStop' and stop_type is
\* 'profit_stop' exactly when the realized pnl (gross pnl minus exit fee) is
\* > 0, and reason is 'Stop' and stop_type is 'loss_stop' exactly when it is
\* <= 0, whichever of the initial, trailing or tightened stop triggered the
\* exit; no other reason or stop_type is recorded.
C15_ReasonFollowsRealizedPnl ==
    \A n \in 1 .. Len(trades) :
        LET t == trades[n]
        IN /\ t.pnl = Realized(t)
           /\ t.reason \in {"TrailStop", "Stop"}
           /\ t.stop_type \in {"profit_stop", "loss_stop"}
           /\ (t.reason = "TrailStop") <=> (t.pnl > 0)
           /\ (t.stop_type = "profit_stop") <=> (t.pnl > 0)
           /\ (t.reason = "Stop") <=> (t.pnl <= 0)
           /\ (t.stop_type = "loss_stop") <=> (t.pnl <= 0)

\* A run with a losing exit on an untightened stop and a winning exit on a
\* tightened one.
C15_Witness ==
    /\ counters["tp2_invalid_triggered_exit_count"] >= 1
    /\ \E n \in 1 .. Len(trades) :
          trades[n].reason = "Stop" /\ trades[n].stop_type = "loss_stop"
    /\ trades[Len(trades)].reason = "TrailStop"
    /\ trades[Len(trades)].stop_type = "profit_stop"
    /\ bar[1].start # None
    /\ bar[1].start[1].tp2_tightened
    /\ bar[1].exited = None

\* C16: an input frame that is empty, or that becomes empty once the rows
\* with missing values are dropped, makes run_backtest return empty trades,
\* an empty equity curve and a result with the error marker, without
\* raising, simulating a bar, calling progress_cb or polling stop_flag (the
\* loop, where the last three happen, is never entered).
C16_EmptyFrameIsMarkedError ==
    /\ total = 0 =>
          /\ pc \in {"start", "returned"}
          /\ df = << >>
          /\ bar = None
          /\ progress = << >>
          /\ counters = ZeroCounters
          /\ pc = "returned" =>
                /\ result = Some([error |-> TRUE])
                /\ trades = << >>
                /\ equity_curve = << >>
    /\ (result # None /\ result[1].error) => total = 0
    /\ dropped > 0 => total = 0

\* The call has returned on a frame whose every row had a missing value.
C16_Witness ==
    /\ pc = "returned"
    /\ total = 0
    /\ dropped >= 1
    /\ result = Some([error |-> TRUE])

\* Every position opened so far, closed or not, is of the given side.
OnlySide(side) ==
    /\ \A n \in 1 .. Len(trades') : trades'[n].side = side
    /\ position' # None => position'[1].side = side

\* C18: trade_mode restricts the sides that can be traded: with long_only no
\* SHORT position is ever opened and entries_short stays 0, with short_only
\* no LONG position is ever opened and entries_long stays 0 (with both,
\* either side may be opened); the candidate counters are still tallied for
\* a disabled side, on every bar that reaches its check with its signal.
C18_TradeModeRestrictsSides ==
    [][ BarProcessed =>
          LET row == df'[Len(df')]
              b == bar'[1]
              checked == b.exited = None
          IN /\ config.trade_mode \in {"both", "long_only", "short_only"}
             /\ config.trade_mode = "long_only" =>
                   /\ counters'["entries_short"] = 0
                   /\ OnlySide("LONG")
                   /\ Growth("candidates_short")
                          = IF checked /\ b.entered = None /\ short_signal(row)
                            THEN 1 ELSE 0
             /\ config.trade_mode = "short_only" =>
                   /\ counters'["entries_long"] = 0
                   /\ OnlySide("SHORT")
                   /\ Growth("candidates_long")
                          = IF checked /\ long_signal(row) THEN 1 ELSE 0
      ]_vars

\* A short_only run that has opened a SHORT and tallied a long candidate.
C18_Witness ==
    /\ config.trade_mode = "short_only"
    /\ counters["candidates_long"] >= 1
    /\ counters["entries_short"] >= 1
    /\ counters["entries_long"] = 0
    /\ position # None
    /\ position[1].side = "SHORT"

\* The cash at the entry check of the bar the step processes: the cash
\* before the bar and what the bar's stop exit, if any, realized.
CashAtEntryCheck ==
    IF Len(trades') > Len(trades) THEN cash + trades'[Len(trades')].pnl
    ELSE cash

\* The quantity the sizer returns to the bar's long entry attempt.
LongSize ==
    LET k == Len(df')
        row == df'[k]
        entry_price == (row.close * (10000 + config.slippage_rate)) \div 10000
        recent_low == MinOf({df'[j].low : j \in Window(k)})
        stop_price == Max(entry_price - row.atr * config.atr_init_mult, recent_low)
    IN calculate_position_size(CashAtEntryCheck, config.risk_per_trade_long,
                               entry_price, stop_price, NoCap)

\* The quantity the sizer returns to the bar's short entry attempt.
ShortSize ==
    LET k == Len(df')
        row == df'[k]
        entry_price == (row.close * (10000 - config.slippage_rate)) \div 10000
        recent_high == MaxOf({df'[j].high : j \in Window(k)})
        stop_price == Min(entry_price + row.atr * config.atr_init_mult, recent_high)
    IN calculate_position_size(CashAtEntryCheck, config.risk_per_trade_short,
                               entry_price, stop_price,
                               Some(config.max_notional_pct_short))

\* The bar the step processes calls the sizer for a long entry.
LongAttempt ==
    /\ bar'[1].exited = None
    /\ long_signal(df'[Len(df')])
    /\ config.trade_mode \in {"both", "long_only"}
    /\ df'[Len(df')].adx >= 15

\* The bar the step processes calls the sizer for a short entry.
ShortAttempt ==
    /\ bar'[1].exited = None
    /\ ~(LongAttempt /\ LongSize.value > 0)
    /\ short_signal(df'[Len(df')])
    /\ config.trade_mode \in {"both", "short_only"}
    /\ df'[Len(df')].adx >= 15
    /\ bear_pass(df', Len(df'), filter_cols, config)

\* C19: numeric edge cases are no-ops that keep the loop going: whenever the
\* sizer returns 0 for an entry attempt (zero stop distance, a zero ATR
\* included, non-positive entry price, non-positive cash) no position is
\* opened, no entry fee is charged, no entries_* counter is incremented,
\* nothing is raised, and the bar still gets its equity point.
C19_ZeroSizeIsNoOp ==
    [][ /\ pc' # "raised"
        /\ BarProcessed =>
              LET noop == /\ bar'[1].entered = None
                          /\ position' = None
                          /\ cash' = CashAtEntryCheck
                          /\ Growth("entries_long") = 0
                          /\ Growth("entries_short") = 0
                          /\ Growth("entries_total") = 0
                          /\ Len(equity_curve') = Len(equity_curve) + 1
                          /\ equity_curve'[Len(equity_curve')]
                                = [open_time |-> df'[Len(df')].open_time,
                                   equity |-> cash']
              IN /\ (LongAttempt /\ LongSize.value = 0
                        /\ ~(ShortAttempt /\ ShortSize.value > 0)) => noop
                 /\ (ShortAttempt /\ ShortSize.value = 0) => noop
                 /\ LongAttempt => ~LongSize.raised /\ LongSize.value >= 0
                 /\ ShortAttempt => ~ShortSize.raised /\ ShortSize.value >= 0
      ]_vars

\* A run without cash whose latest bar made a short attempt that the sizer
\* answered with 0, after a long attempt on an earlier bar.
C19_Witness ==
    /\ config.initial_capital = 0
    /\ pc = "loop"
    /\ Len(df) >= 2
    /\ bar[1].entered = None
    /\ short_signal(df[Len(df)])
    /\ ~range_filter(df, Len(df))
    /\ bear_pass(df, Len(df), filter_cols, config)
    /\ counters["candidates_long"] >= 1
    /\ counters["d_allow_long_bars"] = Len(df)
    /\ counters["entries_total"] = 0
    /\ Len(equity_curve) = Len(df)

\* The fee charged when a position of qty at entry_price was opened.
EntryFee(entry_price, qty) == Rate(Notional(entry_price, qty), config.fee_rate)

\* The pnl fields of the first n recorded trades less their entry fees.
RECURSIVE NetOfTrades(_)
NetOfTrades(n) ==
    IF n = 0 THEN 0
    ELSE NetOfTrades(n - 1) + trades[n].pnl
             - EntryFee(trades[n].entry_price, trades[n].qty)

\* C24: accounting identity of run_backtest: after every processed bar, cash
\* equals initial_capital plus the sum of the pnl fields of all recorded
\* trades minus the sum of the entry fees of all entries made so far (the
\* trade pnl nets only the exit fee); the recorded equity equals cash when
\* flat and cash plus qty*(close - entry_price) for an open LONG
\* (qty*(entry_price - close) for a SHORT).
C24_AccountingIdentity ==
    (pc \in {"loop", "returned"} /\ Len(df) >= 1) =>
        LET close == df[Len(df)].close
            open_fee == IF position = None THEN 0
                        ELSE EntryFee(position[1].entry_price, position[1].qty)
            unrealized == IF position = None THEN 0
                          ELSE IF position[1].side = "LONG"
                          THEN Notional(close - position[1].entry_price, position[1].qty)
                          ELSE Notional(position[1].entry_price - close, position[1].qty)
        IN /\ cash = config.initial_capital + NetOfTrades(Len(trades)) - open_fee
           /\ Len(equity_curve) = Len(df)
           /\ equity_curve[Len(df)].equity = cash + unrealized

\* A run with a closed trade of each side and a position open at a bar whose
\* close is away from the entry price.
C24_Witness ==
    /\ pc = "loop"
    /\ Len(trades) >= 2
    /\ \E n, m \in 1 .. Len(trades) : trades[n].side = "LONG" /\ trades[m].side = "SHORT"
    /\ position # None
    /\ equity_curve[Len(df)].equity # cash
    /\ cash # config.initial_capital

\* C27: with tighten_to = mid, an allowed tighten stages a stop through the
\* market: for a LONG the pending stop is >= the trigger bar's mid-band and
\* therefore strictly greater than that bar's close, and for a SHORT it is
\* <= the mid-band and strictly less than that bar's close; on the next bar
\* the position exits unless that bar's low is above (SHORT: high is below)
\* the committed stop, and the exit fill is the stop price adjusted by
\* slippage regardless of that bar's price range.
C27_TightenThroughMarket ==
    [][ (BarProcessed /\ config.tighten_to = "mid") =>
          LET row == df'[Len(df')]
              b == bar'[1]
          IN /\ (position' # None /\ position'[1].pending_stop # None) =>
                   LET staged == position'[1].pending_stop[1]
                   IN IF position'[1].side = "LONG"
                      THEN staged >= row.boll_mid /\ staged > row.close
                      ELSE staged <= row.boll_mid /\ staged < row.close
             /\ (position # None /\ position[1].pending_stop # None) =>
                   LET committed == position[1].pending_stop[1]
                       long == position[1].side = "LONG"
                       fill == IF long
                               THEN (committed * (10000 - config.slippage_rate)) \div 10000
                               ELSE (committed * (10000 + config.slippage_rate)) \div 10000
                   IN /\ b.booked[1].stop_price = committed
                      /\ b.booked[1].pending_stop = None
                      /\ (b.exited # None) <=>
                            IF long THEN row.low > committed ELSE row.high < committed
                      /\ b.exited = None =>
                            /\ Len(trades') = Len(trades) + 1
                            /\ trades'[Len(trades')].exit_price = fill
      ]_vars

\* A LONG whose stop was tightened to the mid-band left on the next bar at a
\* fill above that bar's high.
C27_Witness ==
    /\ pc = "loop"
    /\ config.tighten_to = "mid"
    /\ bar # None
    /\ bar[1].start # None
    /\ bar[1].start[1].pending_stop # None
    /\ bar[1].start[1].side = "LONG"
    /\ bar[1].exited = None
    /\ Len(trades) >= 1
    /\ trades[Len(trades)].exit_time = df[Len(df)].open_time
    /\ trades[Len(trades)].exit_price > df[Len(df)].high

\* C28: the tighten trigger never fires on the bar a position is opened: a
\* LONG is only opened on a bar whose close is above the mid-band while the
\* LONG trigger needs close below it (mirror for SHORT), so
\* tp2_invalid_should_tighten is only ever invoked with hold_bars >= 1 and
\* the tighten check is skipped on the first simulated bar.
C28_NoTightenOnEntryBar ==
    [][ BarProcessed =>
          LET row == df'[Len(df')]
              b == bar'[1]
              opened == b.exited = None /\ b.entered # None
              invoked == TightenCounters(counters') # TightenCounters(counters)
          IN /\ opened =>
                   /\ IF b.entered[1].side = "LONG"
                      THEN row.close > row.boll_mid
                      ELSE row.close < row.boll_mid
                   /\ ~Trigger(b.entered[1], row, PrevRow(df', Len(df')))
                   /\ ~invoked
                   /\ position' = b.entered
                   /\ position'[1].hold_bars = 0
                   /\ ~position'[1].tp2_tightened
             /\ invoked =>
                   /\ Len(df') > 1
                   /\ position' # None
                   /\ position'[1].hold_bars >= 1
             /\ Len(df') = 1 => ~invoked
      ]_vars

\* A LONG opened on a bar after the first, the bar before it closing on or
\* above its mid-band: only the entry bar's own close keeps the trigger off.
C28_Witness ==
    /\ pc = "loop"
    /\ Len(df) >= 2
    /\ EnteredThisBar
    /\ position # None
    /\ position[1].side = "LONG"
    /\ position[1].hold_bars = 0
    /\ df[Len(df) - 1].close >= df[Len(df) - 1].boll_mid

\* C29: trades are recorded in time order and never overlap: for
\* consecutive trades the later one's entry_time is >= the earlier one's
\* exit_time, with equality reachable because a position stopped out on a
\* bar can be replaced by a new entry on that same bar (the entry check runs
\* after the stop-exit check); the new position's stop and sizing use the
\* cash after the exit.
C29_TradesInTimeOrder ==
    [][ BarProcessed =>
          LET b == bar'[1]
              replaced == b.start # None /\ b.exited = None /\ b.entered # None
          IN /\ \A n \in 1 .. Len(trades') - 1 :
                   /\ trades'[n + 1].entry_time >= trades'[n].exit_time
                   /\ trades'[n + 1].exit_time > trades'[n].exit_time
             /\ (position' # None /\ trades' # << >>) =>
                   position'[1].entry_time >= trades'[Len(trades')].exit_time
             /\ replaced =>
                   /\ Len(trades') = Len(trades) + 1
                   /\ b.entered[1].entry_time = trades'[Len(trades')].exit_time
                   /\ CashAtEntryCheck = cash + trades'[Len(trades')].pnl
                   /\ b.entered[1].qty = IF b.entered[1].side = "LONG"
                                         THEN LongSize.value ELSE ShortSize.value
                   /\ cash' = CashAtEntryCheck
                                 - EntryFee(b.entered[1].entry_price, b.entered[1].qty)
      ]_vars

\* A position stopped out at a loss and replaced on the same bar by one of
\* the other side, sized from the cash after the exit.
C29_Witness ==
    /\ pc = "loop"
    /\ bar # None
    /\ bar[1].start # None
    /\ EnteredThisBar
    /\ position # None
    /\ trades # << >>
    /\ position[1].entry_time = trades[Len(trades)].exit_time
    /\ position[1].side # trades[Len(trades)].side
    /\ trades[Len(trades)].pnl < 0

\* The position the tighten check of the bar just processed looks at.
HeldAtTighten == bar'[1].entered

\* The tighten cross trigger fires on the bar just processed.
TriggerFired ==
    /\ HeldAtTighten # None
    /\ Len(df') > 1
    /\ IF HeldAtTighten[1].side = "LONG"
       THEN /\ df'[Len(df')].close < df'[Len(df')].boll_mid
            /\ df'[Len(df') - 1].close >= df'[Len(df') - 1].boll_mid
       ELSE /\ df'[Len(df')].close > df'[Len(df')].boll_mid
            /\ df'[Len(df') - 1].close <= df'[Len(df') - 1].boll_mid

\* The tighten decision for that position on that bar, with the minimum pnl
\* of its side.
Decision ==
    LET p == HeldAtTighten[1]
        close == df'[Len(df')].close
        pnl_pct == IF p.side = "LONG"
                   THEN ((close - p.entry_price) * 1000000) \div p.entry_price
                   ELSE ((p.entry_price - close) * 1000000) \div p.entry_price
        min_pnl_pct == IF p.side = "LONG" THEN config.tp2_invalid_min_pnl_pct_long
                       ELSE config.tp2_invalid_min_pnl_pct_short
    IN IF pnl_pct <= 0 THEN "loss"
       ELSE IF pnl_pct < min_pnl_pct THEN "profit_gate"
       ELSE IF p.hold_bars < config.tp2_invalid_min_hold_bars THEN "hold_gate"
       ELSE "allow"

\* The counter a decision is tallied under.
CounterOf(reason) ==
    CASE reason = "loss" -> "tp2_invalid_blocked_by_loss"
      [] reason = "hold_gate" -> "tp2_invalid_blocked_by_hold"
      [] reason = "profit_gate" -> "tp2_invalid_blocked_by_profit_gate"
      [] reason = "allow" -> "tp2_invalid_tighten_count"

TightenCounterNames ==
    {"tp2_invalid_blocked_by_loss", "tp2_invalid_blocked_by_hold",
     "tp2_invalid_blocked_by_profit_gate", "tp2_invalid_tighten_count"}

\* The bar just processed staged a stop or marked the position tightened.
Staged ==
    /\ position' # None
    /\ \/ position'[1].pending_stop # None
       \/ position'[1].tp2_tightened /\ ~HeldAtTighten[1].tp2_tightened

C31_TightenedExitsCounted ==
    [][ BarProcessed =>
          LET b == bar'[1]
              closed == Len(trades') = Len(trades) + 1
              opened == b.entered # None /\ b.exited = None
          IN /\ Len(trades') \in {Len(trades), Len(trades) + 1}
             /\ closed <=> (position # None /\ b.exited = None)
             /\ Growth("tp2_invalid_triggered_exit_count") =
                   IF closed /\ position[1].tp2_tightened THEN 1 ELSE 0
             /\ b.booked # None => b.booked[1].tp2_tightened = position[1].tp2_tightened
             /\ position' # None =>
                   position'[1].tp2_tightened =
                      \/ ~opened /\ position[1].tp2_tightened
                      \/ Growth("tp2_invalid_tighten_count") = 1
             /\ counters'["tp2_invalid_triggered_exit_count"]
                   <= counters'["tp2_invalid_tighten_count"]
             /\ counters'["tp2_invalid_triggered_exit_count"] <= Len(trades')
      ]_vars

\* Two trades recorded, one of a position that had been tightened and one of
\* a position that had not.
C31_Witness ==
    /\ pc = "loop"
    /\ Len(trades) = 2
    /\ counters["tp2_invalid_triggered_exit_count"] = 1
    /\ counters["tp2_invalid_tighten_count"] >= 1

\* C32: counters only grow and stay mutually consistent after every
\* processed bar: d_range_blocked_bars + d_allow_long_bars =
\* beargate_pass + beargate_fail = number of equity points;
\* d_allow_short_bars <= beargate_pass; entries_total = entries_long +
\* entries_short; entries_long <= candidates_long and entries_short <=
\* candidates_short; and entries_total minus the number of recorded trades is
\* 1 when a position is open and 0 when flat.
C32_CountersConsistent ==
    [][ BarProcessed =>
          LET c == counters' IN
          /\ \A name \in CounterNames : Growth(name) >= 0
          /\ c["d_range_blocked_bars"] + c["d_allow_long_bars"]
                = c["beargate_pass"] + c["beargate_fail"]
          /\ c["beargate_pass"] + c["beargate_fail"] = Len(equity_curve')
          /\ c["d_allow_short_bars"] <= c["beargate_pass"]
          /\ c["entries_total"] = c["entries_long"] + c["entries_short"]
          /\ c["entries_long"] <= c["candidates_long"]
          /\ c["entries_short"] <= c["candidates_short"]
          /\ c["entries_total"] - Len(trades') = IF position' # None THEN 1 ELSE 0
      ]_vars

\* A run with a range-bound bar and a bar passing the secondary gate, a
\* candidate that made no entry, one position closed and a second one open.
C32_Witness ==
    /\ pc = "loop"
    /\ counters["d_range_blocked_bars"] >= 1
    /\ counters["d_allow_short_bars"] >= 1
    /\ counters["beargate_pass"] > counters["d_allow_short_bars"]
    /\ counters["beargate_fail"] >= 1
    /\ counters["candidates_long"] + counters["candidates_short"]
          > counters["entries_total"]
    /\ counters["entries_total"] = 2
    /\ Len(trades) = 1
    /\ position # None

\* The bar just processed is range-bound: range_filter holds at it.
RangeBound == df'[Len(df')].adx < 15

\* C33: no entry of either side is made on a range-bound bar (ADX below
\* 15): such a bar can still tally candidates_long or candidates_short, but
\* it never increments an entries_* counter, opens a position or increments
\* beargate_short_blocked.
C33_NoEntryOnRangeBoundBar ==
    [][ (BarProcessed /\ RangeBound) =>
          /\ Growth("entries_long") = 0
          /\ Growth("entries_short") = 0
          /\ Growth("entries_total") = 0
          /\ Growth("beargate_short_blocked") = 0
          /\ Growth("candidates_long") \in {0, 1}
          /\ Growth("candidates_short") \in {0, 1}
          /\ bar'[1].entered = bar'[1].exited
          /\ position' # None => position # None
      ]_vars

\* Two range-bound bars, a long candidate and then a short candidate that
\* passes the secondary gate, both tallied and neither entered.
C33_Witness ==
    /\ pc = "loop"
    /\ Len(df) = 2
    /\ df[1].adx < 15
    /\ df[2].adx < 15
    /\ counters["candidates_long"] = 1
    /\ counters["candidates_short"] = 1
    /\ counters["beargate_pass"] = 1
    /\ counters["entries_total"] = 0
    /\ position = None

---------------------------------------------------------------------------
(* Claims about a call with an incomplete config, under SpecCfg            *)

\* C17: a configuration that lacks a required key (any key of the risk
\* group, of the strategy parameters, or fee_rate, slippage_rate,
\* initial_capital, trade_mode) makes run_backtest, given a frame with rows,
\* fail at call time, before any bar is simulated; the engine never runs on
\* a default substituted for the missing key.
C17_MissingKeyFailsAtCallTime ==
    (absent # NoKey /\ total > 0) =>
        /\ pc \in {"start", "raised"}
        /\ df = << >>
        /\ result = None

---------------------------------------------------------------------------
(* Claims about two calls with the same arguments, under SpecTwo           *)

\* C20: run_backtest shares no mutable state between runs and does not
\* modify its arguments: no step of either call changes the frame or the
\* config mapping it was given, and once both calls have returned, in
\* whatever order their steps were taken, their trades, equity curves and
\* counters are identical.
C20_RunsAreIndependent ==
    [][ /\ call'.args = call.args
        /\ config' = config
        /\ call.args[2] = config
        /\ (pc' = "returned" /\ call'.result # None) =>
              call'.result[1] = Returned(result'[1].error, trades', equity_curve',
                                         counters')
      ]_vars

\* Both calls have returned from a frame with a warm-up row, each with a
\* closed trade and an equity point per bar kept.
C20_Witness ==
    /\ pc = "returned"
    /\ call.result # None
    /\ ~call.result[1].error
    /\ dropped >= 1
    /\ Len(trades) >= 1
    /\ Len(call.result[1].trades) >= 1
    /\ Len(call.result[1].equity_curve) = total
    /\ call.args[1].columns \cap SignalColumns = {}

---------------------------------------------------------------------------
(* Claims about the store, under SpecStore                                 *)

\* The primary key of a row of the table.
KeyOf(r) == <<r.exchange, r.market_type, r.symbol, r.timeframe, r.open_time>>

\* What every call of upsert_klines does, whatever the table held: the step
\* is a call on series and batch that returned res.
UpsertAccounts(series, batch, res) ==
    LET rows == 1 .. Len(batch)
        touched == {KeyOf(TableRow(series, batch[n])) : n \in rows}
        distinct == \A n1, n2 \in rows :
                        batch[n1].open_time = batch[n2].open_time => n1 = n2
        same(n) == \E r \in Where(klines, series, batch[n].open_time) :
                       Selected(r) = Selected(batch[n])
        other(n) == \E r \in Where(klines, series, batch[n].open_time) :
                       Selected(r) # Selected(batch[n])
    IN /\ res.inserted + res.updated + res.skipped = Len(batch)
       /\ res.inserted >= 0 /\ res.updated >= 0 /\ res.skipped >= 0
       /\ res.inserted = Cardinality(klines') - Cardinality(klines)
       /\ distinct =>
             /\ res.skipped = Cardinality({n \in rows : same(n)})
             /\ res.updated = Cardinality({n \in rows : other(n)})
       /\ \A r1, r2 \in klines' : KeyOf(r1) = KeyOf(r2) => r1 = r2
       /\ \A n \in rows :
             (\A n2 \in rows : batch[n2].open_time = batch[n].open_time => n2 <= n)
                 => TableRow(series, batch[n]) \in klines'
       /\ {r \in klines' : KeyOf(r) \notin touched}
             = {r \in klines : KeyOf(r) \notin touched}

\* The step upserts the batch that the call before it upserted.
SecondTime == call.fn = "upsert_klines" /\ call'.args = call.args

\* C22 as stated: upsert_klines classifies every input row as exactly one of
\* inserted, skipped or updated, so the three counts add up to the number of
\* rows; the store keeps at most one row per key, holding the last written
\* values; and upserting the same batch a second time reports every row as
\* skipped and leaves the store unchanged.
C22_AsStated ==
    [][ LET batch == call'.args[2]
            res == call'.result[1]
        IN /\ UpsertAccounts(call'.args[1], batch, res)
           /\ SecondTime => res.skipped = Len(batch) /\ klines' = klines
      ]_vars

\* No two rows of the batch have the same open_time and different values.
NoConflict(batch) ==
    \A n1, n2 \in 1 .. Len(batch) :
        batch[n1].open_time = batch[n2].open_time
            => Selected(batch[n1]) = Selected(batch[n2])

\* C22: as above, but the second upsert of a batch reports every row as
\* skipped only when no two rows of the batch carry different values for the
\* same open_time; in every case it inserts nothing and leaves the store as
\* the first upsert left it.
C22_UpsertIsIdempotent ==
    [][ LET batch == call'.args[2]
            res == call'.result[1]
        IN /\ UpsertAccounts(call'.args[1], batch, res)
           /\ SecondTime =>
                 /\ klines' = klines
                 /\ res.inserted = 0
                 /\ NoConflict(batch) => res.skipped = Len(batch)
      ]_vars

\* A batch of two bars was upserted into a store that held both of them
\* with the same values, next to a bar of the other series.
C22_Witness ==
    /\ call.fn = "upsert_klines"
    /\ Len(call.args[2]) = 2
    /\ call.args[2][1].open_time # call.args[2][2].open_time
    /\ call.result = Some([inserted |-> 0, updated |-> 0, skipped |-> 2])
    /\ Cardinality(klines) >= 3

---------------------------------------------------------------------------
(* Claims about two calls on frames that agree up to a bar, under SpecFork *)

\* The frames of the two calls agree on every bar before the latest.
AgreeBefore ==
    /\ Len(df) = Len(df2)
    /\ \A n \in 1 .. Len(df) - 1 : df[n] = df2[n]

\* C25: no look-ahead in stop management: the stop_price tested against bar
\* i in the stop-exit check depends only on bars before i; two runs with the
\* same configuration on frames that agree on all bars before i have the
\* same position, stop_price and cash at the moment of bar i's stop-exit
\* check, whatever bar i and later bars contain.
C25_NoLookAhead ==
    (pc = "check" /\ AgreeBefore) =>
        /\ position = run2[1].position
        /\ cash = run2[1].cash

\* The two calls are at the stop-exit check of a bar that differs between
\* the frames, each with a position whose staged stop has been committed.
C25_Witness ==
    /\ pc = "check"
    /\ AgreeBefore
    /\ df[Len(df)].close # df2[Len(df2)].close
    /\ position # None
    /\ position[1].tp2_tightened
    /\ position[1].pending_stop = None
    /\ run2[1].position = position

---------------------------------------------------------------------------
(* Claims about the stop of a new position, under SpecWindow               *)

\* The bars the structural stop of the bar just processed is taken over: at
\* most the last five, the bar's own included.
LastFive == {j \in 1 .. Len(df') : j > Len(df') - 5}

\* The entry price and the stop of a long entry on the bar just processed.
LongEntryPrice == (df'[Len(df')].close * (10000 + config.slippage_rate)) \div 10000
LongStop ==
    Max(LongEntryPrice - df'[Len(df')].atr * config.atr_init_mult,
        MinOf({df'[j].low : j \in LastFive}))

\* The entry price and the stop of a short entry on the bar just processed.
ShortEntryPrice == (df'[Len(df')].close * (10000 - config.slippage_rate)) \div 10000
ShortStop ==
    Min(ShortEntryPrice + df'[Len(df')].atr * config.atr_init_mult,
        MaxOf({df'[j].high : j \in LastFive}))

\* C26: every opened position starts with its stop strictly on the losing
\* side of its entry price: an opened LONG has stop_price < entry_price and
\* an opened SHORT has stop_price > entry_price, the structural stop being
\* taken over at most the last 5 bars including the entry bar (fewer at the
\* start of the frame); when stop and entry coincide no position is opened.
C26_StopOnLosingSide ==
    [][ BarProcessed =>
          LET opened == bar'[1].exited = None /\ bar'[1].entered # None
              p == bar'[1].entered[1]
          IN /\ (opened /\ p.side = "LONG") =>
                   /\ p.entry_price = LongEntryPrice
                   /\ p.stop_price = LongStop
                   /\ p.stop_price < p.entry_price
             /\ (opened /\ p.side = "SHORT") =>
                   /\ p.entry_price = ShortEntryPrice
                   /\ p.stop_price = ShortStop
                   /\ p.stop_price > p.entry_price
             /\ (LongAttempt /\ LongStop = LongEntryPrice) =>
                   ~(opened /\ p.side = "LONG")
             /\ (ShortAttempt /\ ShortStop = ShortEntryPrice) =>
                   ~(opened /\ p.side = "SHORT")
      ]_vars

\* A LONG opened on the sixth bar with the structural stop of the last five
\* bars, above the low of the first bar.
C26_Witness ==
    /\ pc = "loop"
    /\ Len(df) = 6
    /\ bar[1].start = None
    /\ bar[1].entered # None
    /\ bar[1].entered[1].side = "LONG"
    /\ bar[1].entered[1].stop_price = df[6].low
    /\ df[1].low < df[6].low

---------------------------------------------------------------------------
(* Claims about the callbacks of run_backtest, under SpecPoll              *)

\* stop_flag has returned True.
ToldToStop == polls # << >> /\ polls[Len(polls)]

\* The bars whose progress call has been made or skipped.
Reported == IF pc = "report" THEN Len(df) - 1 ELSE Len(df)

\* C34: the progress callback is invoked exactly once per processed bar,
\* after that bar's equity point is appended, with (k, total) where k runs
\* 1, 2, ... in order and total is the number of simulated bars; in an
\* uncancelled run the last call is (total, total); the cancellation check
\* is polled exactly once per bar, before any processing of that bar, and
\* never again after it has returned true.
C34_CallbacksOncePerBar ==
    pc \in {"loop", "bar", "report", "returned"} =>
      /\ IF call.args["progress_cb"]
         THEN /\ progress = [k \in 1 .. Reported |-> <<k, total>>]
              /\ Len(equity_curve) = IF pc = "report" THEN Len(progress) + 1
                                     ELSE Len(progress)
              /\ (pc = "returned" /\ total > 0 /\ ~ToldToStop) =>
                    progress[Len(progress)] = <<total, total>>
         ELSE progress = << >>
      /\ IF call.args["stop_flag"]
         THEN /\ Len(polls) = IF pc = "bar" \/ ToldToStop THEN Len(df) + 1
                              ELSE Len(df)
              /\ \A n \in 1 .. Len(polls) - 1 : ~polls[n]
              /\ ToldToStop => pc = "returned"
              /\ pc = "bar" =>
                    /\ Len(equity_curve) = Len(df)
                    /\ counters["beargate_pass"] + counters["beargate_fail"] = Len(df)
         ELSE polls = << >>

\* A run cancelled at its third bar: three polls, two progress calls.
C34_Witness ==
    /\ pc = "returned"
    /\ total = 3
    /\ call.args["progress_cb"]
    /\ polls = <<FALSE, FALSE, TRUE>>
    /\ progress = << <<1, 3>>, <<2, 3>> >>
    /\ Len(equity_curve) = 2

---------------------------------------------------------------------------
(* Claims about the backtest worker, under SpecWorker                      *)

\* run has returned or has been left by an exception.
WorkerEnded == worker.pc \in {"done", "raised"}

\* C35: every invocation of BacktestWorker.run eventually emits the finished
\* signal exactly once, on every path (stopped during download, fetch error,
\* no data, failed self-check, stopped during backtest, and successful
\* completion including report generation and export): run never emits
\* twice, it always goes on until it has ended, and when it has ended it has
\* emitted once.
C35_FinishedExactlyOnce ==
    /\ Len(worker.emitted) <= 1
    /\ WorkerEnded \/ ENABLED NextWorker
    /\ WorkerEnded => Len(worker.emitted) = 1

\* The paths on which run does emit: it ends having emitted once, whether
\* stopped, failed or cut short by an error.
C35_EmittingPaths ==
    /\ Len(worker.emitted) <= 1
    /\ worker.pc = "done" <=> Len(worker.emitted) = 1
    /\ worker.pc = "done" => worker.emitted[1] \in {"stopped", "error"}
    /\ worker.pc = "raised" => worker.segments = 0

---------------------------------------------------------------------------
(* Claims about the live trader, under SpecLive                            *)

\* The step runs one iteration of the loop of LiveTrader.run.
Iterated == trader'.iterations = trader.iterations + 1

\* Where action occurs in a report.
At(report, action) == {n \in 1 .. Len(report) : report[n] = action}

\* What C36 says of a step whatever the limit is: error_count is the number
\* of consecutive failed iterations, an iteration runs only while stop_event
\* is not set, a failed iteration that brings error_count to the limit
\* records kill_switch and leaves the loop, and run returns only once it has
\* appended a final stop record, after any kill_switch record.
KillSwitchStep ==
    LET t == trader'
        limit == t.live.kill_switch_max_errors
    IN /\ t.error_count = t.streak
       /\ Iterated =>
             /\ ~trader.stop_event
             /\ t.error_count = IF t.iter.failed THEN trader.error_count + 1 ELSE 0
             /\ t.pc = IF t.iter.failed /\ t.error_count >= limit THEN "exit"
                       ELSE "wait"
             /\ t.pc = "exit" <=> t.report[Len(t.report)] = "kill_switch"
       /\ (trader.stop_event /\ trader.pc \in {"loop", "wait"}) => t.pc = "exit"
       /\ t.pc = "returned" =>
             /\ At(t.report, "stop") = {Len(t.report)}
             /\ At(t.report, "start") = {1}
             /\ At(t.report, "kill_switch") \subseteq {Len(t.report) - 1}

\* C36 as stated: error_count counts consecutive failed iterations and is
\* reset to 0 by any successful iteration; the loop stops as soon as
\* error_count reaches kill_switch_max_errors, so no more than that many
\* consecutive failing iterations ever run; the loop also stops once
\* stop_event is set, and on every exit path a final stop record is appended
\* after any kill_switch record.
C36_AsStated ==
    [][ /\ KillSwitchStep
        /\ trader'.streak <= trader'.live.kill_switch_max_errors
      ]_vars

\* C36: as above for kill_switch_max_errors >= 1; with a limit of 0 or less
\* the loop stops after the first failing iteration, so one failing
\* iteration runs.
C36_KillSwitch ==
    [][ /\ KillSwitchStep
        /\ trader'.streak <= Max(1, trader'.live.kill_switch_max_errors)
      ]_vars

\* A run that failed, succeeded, and then failed twice in a row: the kill
\* switch trips at two consecutive errors, not at two errors.
C36_Witness ==
    /\ trader.pc = "returned"
    /\ trader.live.kill_switch_max_errors = 2
    /\ ~trader.stop_event
    /\ Cardinality(At(trader.report, "error")) = 3
    /\ SubSeq(trader.report, Len(trader.report) - 2, Len(trader.report))
          = <<"error", "kill_switch", "stop">>

\* What C37 says of the iteration a step runs, but for the position cap:
\* at most one order, real or simulated; none within cooldown seconds of the
\* last one; an open only when the exchange reports no position and
\* max_notional_usdt > 0; a close only of an existing position against an
\* enabled opposite signal; the order endpoint called at most once, and only
\* in LIVE mode.  A step that runs no iteration orders nothing.
OrdersOfIteration ==
    LET t == trader'
        i == t.iter
        live == t.live
        calls == Len(t.placed) - Len(trader.placed)
        long_on == i.long /\ live.trade_mode \in {"both", "long_only"}
        short_on == i.short /\ live.trade_mode \in {"both", "short_only"}
    IN IF ~Iterated
       THEN t.placed = trader.placed /\ t.last_order_ts = trader.last_order_ts
       ELSE /\ i.orders \in {0, 1}
            /\ calls \in {0, 1}
            /\ calls = 1 => live.mode = "LIVE"
            /\ live.mode = "LIVE" => calls >= i.orders
            /\ live.mode # "LIVE" => calls = 0
            /\ i.orders = 0 => t.last_order_ts = trader.last_order_ts
            /\ (i.orders = 1 \/ calls = 1) =>
                  /\ trader.now - trader.last_order_ts >= live.cooldown_seconds
                  /\ ~i.failed => t.last_order_ts = trader.now
            /\ i.kind = "open" =>
                  /\ i.amt = 0
                  /\ trader.position_amt = 0
                  /\ live.max_notional_usdt > 0
                  /\ \/ i.side = "BUY" /\ long_on
                     \/ i.side = "SELL" /\ ~long_on /\ short_on
            /\ i.kind = "close" =>
                  /\ i.amt # 0
                  /\ \/ i.amt > 0 /\ i.side = "SELL" /\ short_on
                     \/ i.amt < 0 /\ i.side = "BUY" /\ long_on

\* The latest iteration opened a position.
Opened == Iterated /\ trader'.iter.kind = "open"

\* C37 as stated: LiveTrader._loop_once places (or, in DRY-RUN, simulates)
\* at most one order per iteration and none while fewer than cooldown
\* seconds have passed since the last order; it opens a position only when
\* the exchange reports no position, never opens when max_notional_usdt <= 0
\* or when the order would exceed max_position_usdt, closes only an existing
\* position against an enabled opposite signal, and calls the exchange order
\* endpoint only when mode is LIVE.
C37_AsStated ==
    [][ /\ OrdersOfIteration
        /\ Opened => Abs(trader'.iter.amt * LastPrice) + trader'.live.max_notional_usdt
                        <= trader'.live.max_position_usdt
      ]_vars

\* C37: as above, the position cap applying only when max_position_usdt > 0;
\* with max_position_usdt <= 0, the default, an open is never refused for
\* its size.
C37_OrdersGuarded ==
    [][ /\ OrdersOfIteration
        /\ (Opened /\ trader'.live.max_position_usdt > 0) =>
              Abs(trader'.iter.amt * LastPrice) + trader'.live.max_notional_usdt
                 <= trader'.live.max_position_usdt
      ]_vars

\* A LIVE trader under a position cap that opened, sat out the cooldown and
\* then closed against the opposite signal.
C37_Witness ==
    /\ trader.live.mode = "LIVE"
    /\ trader.live.max_position_usdt > 0
    /\ Len(trader.placed) = 2
    /\ ~trader.placed[1].reduce_only
    /\ trader.placed[2].reduce_only
    /\ trader.placed[2].at - trader.placed[1].at = trader.live.cooldown_seconds
    /\ trader.iterations = 3
    /\ trader.position_amt = 0

---------------------------------------------------------------------------
(* Claims about fetch_klines, under SpecFetch                              *)

\* The page requests the window start_ms .. end_ms has room for when each
\* moves the cursor on by an interval or more.
RoomFor(a) ==
    IF a.start_ms > a.end_ms THEN 0
    ELSE (a.end_ms - a.start_ms) \div a.interval_ms + 1

\* C38: fetch_klines terminates whenever every non-empty batch returned by
\* the exchange ends with an open_time >= the requested cursor: the cursor
\* then strictly increases by at least one interval per iteration, so the
\* requests are at most those the window has room for and the loop is never
\* still running after them; the loop ends when a batch is empty, when a
\* batch is shorter than the page limit, or when the cursor passes end_ms (or
\* by the exception of a failed request); the progress callback receives a
\* non-decreasing running count.
C38_FetchTerminates ==
    /\ api.in_order =>
          /\ api.pc = "loop" =>
                api.cursor >= api.start_ms + api.pages * api.interval_ms
          /\ (api.batch # None /\ api.batch[1].n > 0) =>
                api.cursor >= api.asked[1] + api.interval_ms
          /\ api.pages <= RoomFor(api)
          /\ api.pages < MaxPages
          /\ api.pc = "loop" => ENABLED NextFetch
    /\ api.pc = "returned" =>
          \/ api.batch # None /\ api.batch[1].n = 0
          \/ api.batch # None /\ api.batch[1].n < PageLimit
          \/ api.cursor > api.end_ms
    /\ api.pc = "loop" =>
          api.batch = None \/ api.batch[1].n = PageLimit
    /\ \A n \in 1 .. Len(api.reported) - 1 : api.reported[n] <= api.reported[n + 1]
    /\ (api.progress_cb /\ api.reported # << >>) =>
          api.reported[Len(api.reported)] = api.fetched
    /\ ~api.progress_cb => api.reported = << >>

\* A call that ran as many full pages as its window has room for, each
\* batch in order, and returned because the cursor passed end_ms.
C38_Witness ==
    /\ api.pc = "returned"
    /\ api.in_order
    /\ api.pages = RoomFor(api)
    /\ api.pages >= 3
    /\ api.batch[1].n = PageLimit
    /\ api.cursor > api.end_ms
    /\ Len(api.reported) = api.pages

\* An exchange that answers with rows before the cursor keeps the loop going
\* past the requests the window has room for.
C38_OutOfOrderRunsOn ==
    /\ api.pc = "loop"
    /\ ~api.in_order
    /\ api.pages = MaxPages
    /\ api.cursor <= api.end_ms

---------------------------------------------------------------------------
(* Claims about _call, under SpecRetry                                     *)

\* The invocations of func that raised.
Failures(a) == {n \in 1 .. Len(a.invoked) : a.invoked[n].kind = "raise"}

\* C39: BinanceAPI._call invokes the wrapped function at most retries + 1
\* times (retries being self.retries, the argument floored at 0), returns
\* the result of the first successful invocation without calling it again,
\* and raises a RuntimeError only after retries + 1 consecutive failures;
\* with retries = 0 the function is called exactly once.
C39_CallRetries ==
    LET n == Len(api.invoked) IN
    /\ api.retries >= 0
    /\ n <= api.retries + 1
    /\ api.pc = "returned" =>
          /\ n >= 1
          /\ Failures(api) = 1 .. n - 1
          /\ api.result = Some(api.invoked[n].value)
          /\ ~ENABLED NextRetry
    /\ api.pc = "raised" =>
          /\ n = api.retries + 1
          /\ Failures(api) = 1 .. n
          /\ api.last_exc = Some(api.invoked[n].value)
    /\ api.pc = "for" =>
          /\ Failures(api) = 1 .. n
          /\ ENABLED NextRetry
    /\ (api.retries = 0 /\ api.pc # "for") => n = 1

\* A call that failed twice and returned what the third invocation returned.
C39_Witness ==
    /\ api.pc = "returned"
    /\ api.retries = 2
    /\ Len(api.invoked) = 3
    /\ api.invoked[1].kind = "raise"
    /\ api.invoked[2].kind = "raise"
    /\ api.result = Some("b")

====
